---- MODULE Spec2Model ----
(***************************************************************************)
(* JigglyText (src/src/lib/JigglyText.tsx): text laid out as glyph         *)
(* outlines, parsed into path commands, perturbed on animation frames and  *)
(* serialised back into the displayed path.                                *)
(*                                                                         *)
(* Numbers are fixed point: an integer v stands for the number v / Scale.  *)
(* Strings are sequences of one-character strings.  Time is counted in     *)
(* units of 100 ms, so that the wave envelope sin(pi * t / 200) only takes *)
(* the values -1, 0 and 1.                                                 *)
(***************************************************************************)
EXTENDS Integers, Sequences, FiniteSets, TLC

\* ------------------------------------------------------------------------
\* Bounds of the model
\* ------------------------------------------------------------------------

\* latest timestamp (in 100 ms units) a frame or an effect may observe
MaxTime == 4

\* longest command sequence handed to the serialiser on its own
MaxCmds == 2

\* renders with changed props after the first one
MaxRenders == 1

\* longest text laid out on its own
MaxText == 2

\* longest outline description handed to the parser on its own
MaxChars == 4

\* ------------------------------------------------------------------------
\* Numbers
\* ------------------------------------------------------------------------

\* fixed-point denominator of the model's numbers (number, PathCommand.values)
Scale == 10

\* the value Number(...) and 0/0 produce when there is no number
NaN == 0 - 1000000

Abs(v) == IF v < 0 THEN 0 - v ELSE v

\* a / b rounded towards zero; NaN when it is 0/0 or an operand is NaN
Quot(a, b) ==
  IF a = NaN \/ b = NaN \/ b = 0 THEN NaN
  ELSE IF (a < 0) = (b < 0) THEN Abs(a) \div Abs(b)
  ELSE 0 - (Abs(a) \div Abs(b))

Plus(a, b) == IF a = NaN \/ b = NaN THEN NaN ELSE a + b

\* the largest r in lo..hi with r * r <= n
RECURSIVE SqrtBetween(_, _, _)
SqrtBetween(n, lo, hi) ==
  IF lo = hi THEN lo
  ELSE LET mid == (lo + hi + 1) \div 2
       IN IF mid * mid <= n THEN SqrtBetween(n, mid, hi)
          ELSE SqrtBetween(n, lo, mid - 1)

\* Math.sqrt on fixed-point squares, rounded down (the search stops at the
\* largest root whose square the checker's integers hold)
Sqrt(n) == SqrtBetween(n, 0, IF n < 46340 THEN n ELSE 46340)

\* v * p / 100, the products of the glyph table (w * 0.15, h * 0.7, ...)
Pct(v, p) == (v * p) \div 100

Digits == <<"0", "1", "2", "3", "4", "5", "6", "7", "8", "9">>

RECURSIVE NatToString(_)
NatToString(n) ==
  IF n < 10 THEN <<Digits[n + 1]>>
  ELSE NatToString(n \div 10) \o <<Digits[(n % 10) + 1]>>

\* Number -> string as template literals and Array.join do it:
\* "-" for negatives, no fraction when it is zero, "NaN" for NaN
NumberToString(v) ==
  IF v = NaN THEN <<"N", "a", "N">>
  ELSE (IF v < 0 THEN <<"-">> ELSE <<>>)
       \o NatToString(Abs(v) \div Scale)
       \o (IF Abs(v) % Scale = 0 THEN <<>>
           ELSE <<".">> \o NatToString(Abs(v) % Scale))

DigitValue(c) == CHOOSE i \in 0..9 : Digits[i + 1] = c

IsDigit(c) == \E i \in 1..10 : Digits[i] = c

RECURSIVE DigitsToNat(_, _)
DigitsToNat(s, acc) ==
  IF s = <<>> THEN acc ELSE DigitsToNat(Tail(s), acc * 10 + DigitValue(Head(s)))

\* Number(token) for decimal literals: optional sign, digits, optional
\* fraction; anything else is NaN.  Fraction digits beyond the model's
\* resolution are cut.
StringToNumber(tok) ==
  LET signed == tok # <<>> /\ Head(tok) \in {"-", "+"}
      body   == IF signed THEN Tail(tok) ELSE tok
      dots   == {i \in 1..Len(body) : body[i] = "."}
      dot    == IF dots = {} THEN Len(body) + 1 ELSE CHOOSE i \in dots : TRUE
      ip     == SubSeq(body, 1, dot - 1)
      fp     == SubSeq(body, dot + 1, Len(body))
      ok     == /\ Cardinality(dots) <= 1
                /\ Len(ip) + Len(fp) > 0
                /\ \A i \in 1..Len(ip) : IsDigit(ip[i])
                /\ \A i \in 1..Len(fp) : IsDigit(fp[i])
      mag    == DigitsToNat(ip, 0) * Scale
                + (IF fp = <<>> THEN 0 ELSE DigitValue(fp[1]))
  IN IF ~ok THEN NaN
     ELSE IF signed /\ Head(tok) = "-" THEN 0 - mag ELSE mag

\* ------------------------------------------------------------------------
\* Outline parser and serialiser
\* ------------------------------------------------------------------------

CommandLetters ==
  {"M", "m", "L", "l", "H", "h", "V", "v", "C", "c",
   "S", "s", "Q", "q", "T", "t", "A", "a", "Z", "z"}

\* variant: only commas separate operands
IsSeparatorComma(c) == c = ","

\* variant: only blanks separate operands
IsSeparatorBlank(c) == c = " "

IsSeparator(c) == c \in {" ", ","}

\* valueStr.trim().split(/[\s,]+/).filter(v => v !== '')
RECURSIVE SplitValues(_, _, _)
SplitValues(s, cur, acc) ==
  IF s = <<>> THEN (IF cur = <<>> THEN acc ELSE Append(acc, cur))
  ELSE IF IsSeparator(Head(s))
       THEN SplitValues(Tail(s), <<>>, IF cur = <<>> THEN acc ELSE Append(acc, cur))
       ELSE SplitValues(Tail(s), Append(cur, Head(s)), acc)

\* variant: no value counts as NaN
isNaNNever(v) == FALSE

isNaN(v) == v = NaN

\* .map(Number).filter(v => !isNaN(v))
RECURSIVE NumbersOf(_)
NumbersOf(toks) ==
  IF toks = <<>> THEN <<>>
  ELSE LET v == StringToNumber(Head(toks))
       IN (IF isNaN(v) THEN <<>> ELSE <<v>>) \o NumbersOf(Tail(toks))

\* the end of the longest run without a command letter that starts at d[i]
RECURSIVE ValueRun(_, _)
ValueRun(d, i) ==
  IF i > Len(d) \/ d[i] \in CommandLetters THEN i - 1 ELSE ValueRun(d, i + 1)

\* the matches of the regex from d[i] on
RECURSIVE parseFrom(_, _)
parseFrom(d, i) ==
  IF i > Len(d) THEN <<>>
  ELSE IF d[i] \notin CommandLetters THEN parseFrom(d, i + 1)
  ELSE LET end    == ValueRun(d, i + 1)
           values == NumbersOf(SplitValues(SubSeq(d, i + 1, end), <<>>, <<>>))
       IN <<[command |-> d[i], values |-> values, originalValues |-> values]>>
          \o parseFrom(d, end + 1)

parsePathData(d) == parseFrom(d, 1)

\* values.join(',')
RECURSIVE JoinValues(_)
JoinValues(vs) ==
  IF vs = <<>> THEN <<>>
  ELSE IF Len(vs) = 1 THEN NumberToString(vs[1])
  ELSE NumberToString(vs[1]) \o <<",">> \o JoinValues(Tail(vs))

RECURSIVE commandsToPath(_)
commandsToPath(commands) ==
  IF commands = <<>> THEN <<>>
  ELSE <<Head(commands).command>> \o JoinValues(Head(commands).values)
       \o commandsToPath(Tail(commands))

\* ------------------------------------------------------------------------
\* Glyph outline library and text layout
\* ------------------------------------------------------------------------

\* `${a},${b}`
Pair(a, b) == NumberToString(a) \o <<",">> \o NumberToString(b)

MoveTo(a, b) == <<"M">> \o Pair(a, b)

LineTo(a, b) == <<" ", "L">> \o Pair(a, b)

QuadTo(a, b, c, d) == <<" ", "Q">> \o Pair(a, b) \o <<" ">> \o Pair(c, d)

ClosePath == <<" ", "Z">>

\* characters c with c.toUpperCase() other than c
LowerCaseChars ==
  {"a", "b", "c", "d", "e", "f", "g", "h", "i", "j", "k", "l", "m", "n", "o", "p",
   "q", "r", "s", "t", "u", "v", "w", "x", "y", "z", "é", "ß"}

\* paths.A
GlyphA(x, y, w, h, s) ==
  LET peak == y - h
      mid  == y - Pct(h, 40)
  IN MoveTo(x, y) \o LineTo(x + Pct(w, 50), peak) \o LineTo(x + w, y)
     \o LineTo(x + w - s, y) \o LineTo(x + Pct(w, 50), peak + s * 2)
     \o LineTo(x + s, y) \o ClosePath
     \o <<" ">> \o MoveTo(x + Pct(w, 25), mid) \o LineTo(x + Pct(w, 75), mid)
     \o LineTo(x + Pct(w, 70), mid + s) \o LineTo(x + Pct(w, 30), mid + s)
     \o ClosePath

\* paths.B
GlyphB(x, y, w, h, s) ==
  LET top == y - h
      mid == y - Pct(h, 50)
  IN MoveTo(x, top) \o LineTo(x + Pct(w, 70), top)
     \o QuadTo(x + w, top, x + w, top + Pct(h, 25))
     \o QuadTo(x + w, mid, x + Pct(w, 60), mid)
     \o QuadTo(x + w, mid, x + w, y - Pct(h, 25))
     \o QuadTo(x + w, y, x + Pct(w, 70), y) \o LineTo(x, y) \o ClosePath
     \o <<" ">> \o MoveTo(x + s, top + s) \o LineTo(x + s, mid - Pct(s, 50))
     \o LineTo(x + Pct(w, 60), mid - Pct(s, 50))
     \o QuadTo(x + w - s, mid - Pct(s, 50), x + w - s, top + Pct(h, 25))
     \o QuadTo(x + w - s, top + s, x + Pct(w, 60), top + s) \o ClosePath
     \o <<" ">> \o MoveTo(x + s, mid + Pct(s, 50)) \o LineTo(x + s, y - s)
     \o LineTo(x + Pct(w, 65), y - s)
     \o QuadTo(x + w - s, y - s, x + w - s, y - Pct(h, 25))
     \o QuadTo(x + w - s, mid + Pct(s, 50), x + Pct(w, 55), mid + Pct(s, 50))
     \o ClosePath

\* paths.C
GlyphC(x, y, w, h, s) ==
  LET cx == x + Pct(w, 55)
      cy == y - Pct(h, 50)
  IN MoveTo(x + w, y - Pct(h, 20)) \o QuadTo(x + w, y, cx, y) \o QuadTo(x, y, x, cy)
     \o QuadTo(x, y - h, cx, y - h) \o QuadTo(x + w, y - h, x + w, y - Pct(h, 80))
     \o LineTo(x + w - s, y - Pct(h, 80))
     \o QuadTo(x + w - s, y - h + s, cx, y - h + s)
     \o QuadTo(x + s, y - h + s, x + s, cy) \o QuadTo(x + s, y - s, cx, y - s)
     \o QuadTo(x + w - s, y - s, x + w - s, y - Pct(h, 20)) \o ClosePath

\* paths.D
GlyphD(x, y, w, h, s) ==
  LET top == y - h
  IN MoveTo(x, top) \o LineTo(x + Pct(w, 60), top)
     \o QuadTo(x + w, top, x + w, y - Pct(h, 50))
     \o QuadTo(x + w, y, x + Pct(w, 60), y) \o LineTo(x, y) \o ClosePath
     \o <<" ">> \o MoveTo(x + s, top + s) \o LineTo(x + s, y - s)
     \o LineTo(x + Pct(w, 55), y - s)
     \o QuadTo(x + w - s, y - s, x + w - s, y - Pct(h, 50))
     \o QuadTo(x + w - s, top + s, x + Pct(w, 55), top + s) \o ClosePath

\* paths.E
GlyphE(x, y, w, h, s) ==
  LET top == y - h
      mid == y - Pct(h, 50)
  IN MoveTo(x, top) \o LineTo(x + w, top) \o LineTo(x + w, top + s)
     \o LineTo(x + s, top + s) \o LineTo(x + s, mid - Pct(s, 50))
     \o LineTo(x + Pct(w, 80), mid - Pct(s, 50))
     \o LineTo(x + Pct(w, 80), mid + Pct(s, 50)) \o LineTo(x + s, mid + Pct(s, 50))
     \o LineTo(x + s, y - s) \o LineTo(x + w, y - s) \o LineTo(x + w, y)
     \o LineTo(x, y) \o ClosePath

\* paths.F
GlyphF(x, y, w, h, s) ==
  LET top == y - h
      mid == y - Pct(h, 50)
  IN MoveTo(x, top) \o LineTo(x + w, top) \o LineTo(x + w, top + s)
     \o LineTo(x + s, top + s) \o LineTo(x + s, mid - Pct(s, 50))
     \o LineTo(x + Pct(w, 80), mid - Pct(s, 50))
     \o LineTo(x + Pct(w, 80), mid + Pct(s, 50)) \o LineTo(x + s, mid + Pct(s, 50))
     \o LineTo(x + s, y) \o LineTo(x, y) \o ClosePath

\* paths.G
GlyphG(x, y, w, h, s) ==
  LET cx  == x + Pct(w, 55)
      cy  == y - Pct(h, 50)
      mid == y - Pct(h, 45)
  IN MoveTo(x + w, y - Pct(h, 20)) \o QuadTo(x + w, y, cx, y) \o QuadTo(x, y, x, cy)
     \o QuadTo(x, y - h, cx, y - h) \o QuadTo(x + w, y - h, x + w, y - Pct(h, 80))
     \o LineTo(x + w - s, y - Pct(h, 80))
     \o QuadTo(x + w - s, y - h + s, cx, y - h + s)
     \o QuadTo(x + s, y - h + s, x + s, cy) \o QuadTo(x + s, y - s, cx, y - s)
     \o QuadTo(x + w - s, y - s, x + w - s, mid + s)
     \o LineTo(x + Pct(w, 50), mid + s) \o LineTo(x + Pct(w, 50), mid)
     \o LineTo(x + w, mid) \o ClosePath

\* paths.H
GlyphH(x, y, w, h, s) ==
  LET top == y - h
      mid == y - Pct(h, 50)
  IN MoveTo(x, top) \o LineTo(x + s, top) \o LineTo(x + s, mid - Pct(s, 50))
     \o LineTo(x + w - s, mid - Pct(s, 50)) \o LineTo(x + w - s, top)
     \o LineTo(x + w, top) \o LineTo(x + w, y) \o LineTo(x + w - s, y)
     \o LineTo(x + w - s, mid + Pct(s, 50)) \o LineTo(x + s, mid + Pct(s, 50))
     \o LineTo(x + s, y) \o LineTo(x, y) \o ClosePath

\* paths.I
GlyphI(x, y, w, h, s) ==
  LET top == y - h
      cx  == x + Pct(w, 50)
      sw  == Pct(w, 20)
  IN MoveTo(x, top) \o LineTo(x + w, top) \o LineTo(x + w, top + s)
     \o LineTo(cx + sw, top + s) \o LineTo(cx + sw, y - s) \o LineTo(x + w, y - s)
     \o LineTo(x + w, y) \o LineTo(x, y) \o LineTo(x, y - s)
     \o LineTo(cx - sw, y - s) \o LineTo(cx - sw, top + s) \o LineTo(x, top + s)
     \o ClosePath

\* paths.J
GlyphJ(x, y, w, h, s) ==
  LET top == y - h
  IN MoveTo(x + Pct(w, 30), top) \o LineTo(x + w, top)
     \o LineTo(x + w, y - Pct(h, 30)) \o QuadTo(x + w, y, x + Pct(w, 50), y)
     \o QuadTo(x, y, x, y - Pct(h, 30)) \o LineTo(x + s, y - Pct(h, 30))
     \o QuadTo(x + s, y - s, x + Pct(w, 50), y - s)
     \o QuadTo(x + w - s, y - s, x + w - s, y - Pct(h, 30))
     \o LineTo(x + w - s, top + s) \o LineTo(x + Pct(w, 30), top + s) \o ClosePath

\* paths.K
GlyphK(x, y, w, h, s) ==
  LET top == y - h
      mid == y - Pct(h, 50)
  IN MoveTo(x, top) \o LineTo(x + s, top) \o LineTo(x + s, mid - s)
     \o LineTo(x + w - s, top) \o LineTo(x + w, top) \o LineTo(x + s * 2, mid)
     \o LineTo(x + w, y) \o LineTo(x + w - s, y) \o LineTo(x + s, mid + s)
     \o LineTo(x + s, y) \o LineTo(x, y) \o ClosePath

\* paths.L
GlyphL(x, y, w, h, s) ==
  LET top == y - h
  IN MoveTo(x, top) \o LineTo(x + s, top) \o LineTo(x + s, y - s)
     \o LineTo(x + w, y - s) \o LineTo(x + w, y) \o LineTo(x, y) \o ClosePath

\* paths.M
GlyphM(x, y, w, h, s) ==
  LET top == y - h
      cx  == x + Pct(w, 50)
  IN MoveTo(x, top) \o LineTo(x + s, top) \o LineTo(cx, y - Pct(h, 40))
     \o LineTo(x + w - s, top) \o LineTo(x + w, top) \o LineTo(x + w, y)
     \o LineTo(x + w - s, y) \o LineTo(x + w - s, top + s * 3)
     \o LineTo(cx, y - Pct(h, 30)) \o LineTo(x + s, top + s * 3) \o LineTo(x + s, y)
     \o LineTo(x, y) \o ClosePath

\* paths.N
GlyphN(x, y, w, h, s) ==
  LET top == y - h
  IN MoveTo(x, top) \o LineTo(x + s, top) \o LineTo(x + w - s, y - s * 3)
     \o LineTo(x + w - s, top) \o LineTo(x + w, top) \o LineTo(x + w, y)
     \o LineTo(x + w - s, y) \o LineTo(x + s, top + s * 3) \o LineTo(x + s, y)
     \o LineTo(x, y) \o ClosePath

\* paths.O
GlyphO(x, y, w, h, s) ==
  LET cx  == x + Pct(w, 50)
      cy  == y - Pct(h, 50)
      rx  == Pct(w, 50)
      ry  == Pct(h, 50)
      irx == rx - s
      iry == ry - s
  IN MoveTo(cx - rx, cy) \o QuadTo(cx - rx, cy - ry, cx, cy - ry)
     \o QuadTo(cx + rx, cy - ry, cx + rx, cy)
     \o QuadTo(cx + rx, cy + ry, cx, cy + ry)
     \o QuadTo(cx - rx, cy + ry, cx - rx, cy) \o ClosePath
     \o <<" ">> \o MoveTo(cx - irx, cy) \o QuadTo(cx - irx, cy + iry, cx, cy + iry)
     \o QuadTo(cx + irx, cy + iry, cx + irx, cy)
     \o QuadTo(cx + irx, cy - iry, cx, cy - iry)
     \o QuadTo(cx - irx, cy - iry, cx - irx, cy) \o ClosePath

\* paths.P
GlyphP(x, y, w, h, s) ==
  LET top == y - h
      mid == y - Pct(h, 45)
  IN MoveTo(x, top) \o LineTo(x + Pct(w, 70), top)
     \o QuadTo(x + w, top, x + w, top + Quot(h * 275, 1000))
     \o QuadTo(x + w, mid, x + Pct(w, 70), mid) \o LineTo(x + s, mid)
     \o LineTo(x + s, y) \o LineTo(x, y) \o ClosePath
     \o <<" ">> \o MoveTo(x + s, top + s) \o LineTo(x + s, mid - s)
     \o LineTo(x + Pct(w, 65), mid - s)
     \o QuadTo(x + w - s, mid - s, x + w - s, top + Quot(h * 275, 1000))
     \o QuadTo(x + w - s, top + s, x + Pct(w, 65), top + s) \o ClosePath

\* paths.Q
GlyphQ(x, y, w, h, s) ==
  LET cx  == x + Pct(w, 50)
      cy  == y - Pct(h, 50)
      rx  == Pct(w, 50)
      ry  == Pct(h, 50)
      irx == rx - s
      iry == ry - s
  IN MoveTo(cx - rx, cy) \o QuadTo(cx - rx, cy - ry, cx, cy - ry)
     \o QuadTo(cx + rx, cy - ry, cx + rx, cy)
     \o QuadTo(cx + rx, cy + ry, cx, cy + ry)
     \o QuadTo(cx - rx, cy + ry, cx - rx, cy) \o ClosePath
     \o <<" ">> \o MoveTo(cx - irx, cy) \o QuadTo(cx - irx, cy + iry, cx, cy + iry)
     \o QuadTo(cx + irx, cy + iry, cx + irx, cy)
     \o QuadTo(cx + irx, cy - iry, cx, cy - iry)
     \o QuadTo(cx - irx, cy - iry, cx - irx, cy) \o ClosePath
     \o <<" ">> \o MoveTo(cx + Pct(w, 10), y - Pct(h, 30)) \o LineTo(x + w, y)
     \o LineTo(x + w - s, y) \o LineTo(cx, y - Pct(h, 25)) \o ClosePath

\* paths.R
GlyphR(x, y, w, h, s) ==
  LET top == y - h
      mid == y - Pct(h, 45)
  IN MoveTo(x, top) \o LineTo(x + Pct(w, 70), top)
     \o QuadTo(x + w, top, x + w, top + Quot(h * 275, 1000))
     \o QuadTo(x + w, mid, x + Pct(w, 70), mid) \o LineTo(x + Pct(w, 50), mid)
     \o LineTo(x + w, y) \o LineTo(x + w - s, y) \o LineTo(x + Pct(w, 45), mid)
     \o LineTo(x + s, mid) \o LineTo(x + s, y) \o LineTo(x, y) \o ClosePath
     \o <<" ">> \o MoveTo(x + s, top + s) \o LineTo(x + s, mid - s)
     \o LineTo(x + Pct(w, 65), mid - s)
     \o QuadTo(x + w - s, mid - s, x + w - s, top + Quot(h * 275, 1000))
     \o QuadTo(x + w - s, top + s, x + Pct(w, 65), top + s) \o ClosePath

\* paths.S
GlyphS(x, y, w, h, s) ==
  LET top == y - h
      mid == y - Pct(h, 50)
  IN MoveTo(x + w, top + Pct(h, 20)) \o QuadTo(x + w, top, x + Pct(w, 50), top)
     \o QuadTo(x, top, x, top + Pct(h, 25)) \o QuadTo(x, mid, x + Pct(w, 50), mid)
     \o QuadTo(x + w - s, mid, x + w - s, y - Pct(h, 25))
     \o QuadTo(x + w - s, y - s, x + Pct(w, 50), y - s)
     \o QuadTo(x + s, y - s, x + s, y - Pct(h, 20)) \o LineTo(x, y - Pct(h, 20))
     \o QuadTo(x, y, x + Pct(w, 50), y) \o QuadTo(x + w, y, x + w, y - Pct(h, 25))
     \o QuadTo(x + w, mid, x + Pct(w, 50), mid)
     \o QuadTo(x + s, mid, x + s, top + Pct(h, 25))
     \o QuadTo(x + s, top + s, x + Pct(w, 50), top + s)
     \o QuadTo(x + w - s, top + s, x + w - s, top + Pct(h, 20)) \o ClosePath

\* paths.T
GlyphT(x, y, w, h, s) ==
  LET top == y - h
      cx  == x + Pct(w, 50)
  IN MoveTo(x, top) \o LineTo(x + w, top) \o LineTo(x + w, top + s)
     \o LineTo(cx + Pct(s, 50), top + s) \o LineTo(cx + Pct(s, 50), y)
     \o LineTo(cx - Pct(s, 50), y) \o LineTo(cx - Pct(s, 50), top + s)
     \o LineTo(x, top + s) \o ClosePath

\* paths.U
GlyphU(x, y, w, h, s) ==
  LET top == y - h
      cx  == x + Pct(w, 50)
  IN MoveTo(x, top) \o LineTo(x + s, top) \o LineTo(x + s, y - Pct(h, 35))
     \o QuadTo(x + s, y - s, cx, y - s)
     \o QuadTo(x + w - s, y - s, x + w - s, y - Pct(h, 35))
     \o LineTo(x + w - s, top) \o LineTo(x + w, top)
     \o LineTo(x + w, y - Pct(h, 35)) \o QuadTo(x + w, y, cx, y)
     \o QuadTo(x, y, x, y - Pct(h, 35)) \o ClosePath

\* paths.V
GlyphV(x, y, w, h, s) ==
  LET top == y - h
      cx  == x + Pct(w, 50)
  IN MoveTo(x, top) \o LineTo(x + s, top) \o LineTo(cx, y - s)
     \o LineTo(x + w - s, top) \o LineTo(x + w, top) \o LineTo(cx + Pct(s, 50), y)
     \o LineTo(cx - Pct(s, 50), y) \o ClosePath

\* paths.W
GlyphW(x, y, w, h, s) ==
  LET top == y - h
  IN MoveTo(x, top) \o LineTo(x + s, top) \o LineTo(x + Pct(w, 25), y - s)
     \o LineTo(x + Pct(w, 50), top + s * 2) \o LineTo(x + Pct(w, 75), y - s)
     \o LineTo(x + w - s, top) \o LineTo(x + w, top) \o LineTo(x + Pct(w, 80), y)
     \o LineTo(x + Pct(w, 70), y) \o LineTo(x + Pct(w, 50), top + s * 4)
     \o LineTo(x + Pct(w, 30), y) \o LineTo(x + Pct(w, 20), y) \o ClosePath

\* paths.X
GlyphX(x, y, w, h, s) ==
  LET top == y - h
      cx  == x + Pct(w, 50)
      cy  == y - Pct(h, 50)
  IN MoveTo(x, top) \o LineTo(x + s, top) \o LineTo(cx, cy - Pct(s, 50))
     \o LineTo(x + w - s, top) \o LineTo(x + w, top) \o LineTo(cx + Pct(s, 70), cy)
     \o LineTo(x + w, y) \o LineTo(x + w - s, y) \o LineTo(cx, cy + Pct(s, 50))
     \o LineTo(x + s, y) \o LineTo(x, y) \o LineTo(cx - Pct(s, 70), cy) \o ClosePath

\* paths.Y
GlyphY(x, y, w, h, s) ==
  LET top == y - h
      cx  == x + Pct(w, 50)
      mid == y - Pct(h, 45)
  IN MoveTo(x, top) \o LineTo(x + s, top) \o LineTo(cx, mid)
     \o LineTo(x + w - s, top) \o LineTo(x + w, top)
     \o LineTo(cx + Pct(s, 50), mid + s) \o LineTo(cx + Pct(s, 50), y)
     \o LineTo(cx - Pct(s, 50), y) \o LineTo(cx - Pct(s, 50), mid + s) \o ClosePath

\* paths.Z
GlyphZ(x, y, w, h, s) ==
  LET top == y - h
  IN MoveTo(x, top) \o LineTo(x + w, top) \o LineTo(x + w, top + s)
     \o LineTo(x + s * 2, y - s) \o LineTo(x + w, y - s) \o LineTo(x + w, y)
     \o LineTo(x, y) \o LineTo(x, y - s) \o LineTo(x + w - s * 2, top + s)
     \o LineTo(x, top + s) \o ClosePath

\* paths.a
Glyph_a(x, y, w, h, s) ==
  LET hh  == Pct(h, 70)
      top == y - hh
      cx  == x + Pct(w, 45)
  IN MoveTo(x + w - s, top) \o LineTo(x + w, top) \o LineTo(x + w, y)
     \o LineTo(x + w - s, y) \o LineTo(x + w - s, y - s)
     \o QuadTo(x + Pct(w, 50), y + Pct(s, 50), cx, y)
     \o QuadTo(x, y, x, y - Pct(hh, 50)) \o QuadTo(x, top, cx, top)
     \o QuadTo(x + w - s, top, x + w - s, y - Pct(hh, 50)) \o ClosePath
     \o <<" ">> \o MoveTo(x + w - s, y - Pct(hh, 50))
     \o QuadTo(x + w - s, top + s, cx, top + s)
     \o QuadTo(x + s, top + s, x + s, y - Pct(hh, 50))
     \o QuadTo(x + s, y - s, cx, y - s)
     \o QuadTo(x + w - s, y - s, x + w - s, y - Pct(hh, 50)) \o ClosePath

\* paths.b
Glyph_b(x, y, w, h, s) ==
  LET top    == y - h
      lowTop == y - Pct(h, 70)
      cx     == x + Pct(w, 55)
  IN MoveTo(x, top) \o LineTo(x + s, top) \o LineTo(x + s, lowTop + s)
     \o QuadTo(x + Pct(w, 50), lowTop - Pct(s, 50), cx, lowTop)
     \o QuadTo(x + w, lowTop, x + w, y - Pct(h, 35)) \o QuadTo(x + w, y, cx, y)
     \o QuadTo(x + s, y, x + s, y) \o LineTo(x + s, y) \o LineTo(x, y) \o ClosePath
     \o <<" ">> \o MoveTo(x + s, y - Pct(h, 35)) \o QuadTo(x + s, y - s, cx, y - s)
     \o QuadTo(x + w - s, y - s, x + w - s, y - Pct(h, 35))
     \o QuadTo(x + w - s, lowTop + s, cx, lowTop + s)
     \o QuadTo(x + s, lowTop + s, x + s, y - Pct(h, 35)) \o ClosePath

\* paths.c
Glyph_c(x, y, w, h, s) ==
  LET hh  == Pct(h, 70)
      top == y - hh
      cx  == x + Pct(w, 55)
      cy  == y - Pct(hh, 50)
  IN MoveTo(x + w, top + Pct(hh, 20)) \o QuadTo(x + w, top, cx, top)
     \o QuadTo(x, top, x, cy) \o QuadTo(x, y, cx, y)
     \o QuadTo(x + w, y, x + w, y - Pct(hh, 20))
     \o LineTo(x + w - s, y - Pct(hh, 20)) \o QuadTo(x + w - s, y - s, cx, y - s)
     \o QuadTo(x + s, y - s, x + s, cy) \o QuadTo(x + s, top + s, cx, top + s)
     \o QuadTo(x + w - s, top + s, x + w - s, top + Pct(hh, 20)) \o ClosePath

\* paths.d
Glyph_d(x, y, w, h, s) ==
  LET top    == y - h
      lowTop == y - Pct(h, 70)
      cx     == x + Pct(w, 45)
  IN MoveTo(x + w - s, top) \o LineTo(x + w, top) \o LineTo(x + w, y)
     \o LineTo(x + w - s, y) \o LineTo(x + w - s, y - s)
     \o QuadTo(x + Pct(w, 50), y + Pct(s, 50), cx, y)
     \o QuadTo(x, y, x, y - Pct(h, 35)) \o QuadTo(x, lowTop, cx, lowTop)
     \o QuadTo(x + w - s, lowTop, x + w - s, lowTop + s) \o ClosePath
     \o <<" ">> \o MoveTo(x + w - s, y - Pct(h, 35))
     \o QuadTo(x + w - s, lowTop + s, cx, lowTop + s)
     \o QuadTo(x + s, lowTop + s, x + s, y - Pct(h, 35))
     \o QuadTo(x + s, y - s, cx, y - s)
     \o QuadTo(x + w - s, y - s, x + w - s, y - Pct(h, 35)) \o ClosePath

\* paths.e
Glyph_e(x, y, w, h, s) ==
  LET hh   == Pct(h, 70)
      top  == y - hh
      cx   == x + Pct(w, 50)
      cy   == y - Pct(hh, 50)
      barY == cy
  IN MoveTo(x + w, barY) \o QuadTo(x + w, top, cx, top) \o QuadTo(x, top, x, cy)
     \o QuadTo(x, y, cx, y) \o QuadTo(x + Pct(w, 80), y, x + w, y - Pct(hh, 25))
     \o LineTo(x + w - s, y - Pct(hh, 30))
     \o QuadTo(x + Pct(w, 75), y - s, cx, y - s) \o QuadTo(x + s, y - s, x + s, cy)
     \o QuadTo(x + s, top + s, cx, top + s)
     \o QuadTo(x + w - s, top + s, x + w - s, barY) \o LineTo(x + w - s, barY + s)
     \o LineTo(x + s, barY + s) \o LineTo(x + s, barY) \o ClosePath

\* paths.f
Glyph_f(x, y, w, h, s) ==
  LET top == y - h
      mid == y - Pct(h, 65)
      cx  == x + Pct(w, 50)
  IN MoveTo(x + w, top + Pct(h, 15)) \o QuadTo(x + w, top, cx + Pct(w, 10), top)
     \o QuadTo(cx - Pct(w, 20), top, cx - Pct(w, 20), top + Pct(h, 20))
     \o LineTo(cx - Pct(w, 20), mid - Pct(s, 50)) \o LineTo(x, mid - Pct(s, 50))
     \o LineTo(x, mid + Pct(s, 50)) \o LineTo(cx - Pct(w, 20), mid + Pct(s, 50))
     \o LineTo(cx - Pct(w, 20), y) \o LineTo(cx + Pct(w, 20), y)
     \o LineTo(cx + Pct(w, 20), mid + Pct(s, 50))
     \o LineTo(x + Pct(w, 80), mid + Pct(s, 50))
     \o LineTo(x + Pct(w, 80), mid - Pct(s, 50))
     \o LineTo(cx + Pct(w, 20), mid - Pct(s, 50))
     \o LineTo(cx + Pct(w, 20), top + Pct(h, 20))
     \o QuadTo(cx + Pct(w, 20), top + s, cx + Pct(w, 10), top + s)
     \o QuadTo(x + w - s, top + s, x + w - s, top + Pct(h, 15)) \o ClosePath

\* paths.g
Glyph_g(x, y, w, h, s) ==
  LET hh     == Pct(h, 70)
      top    == y - hh
      cx     == x + Pct(w, 50)
      cy     == y - Pct(hh, 50)
      bottom == y + Pct(h, 25)
  IN MoveTo(x + w - s, top) \o LineTo(x + w, top)
     \o LineTo(x + w, bottom - Pct(h, 10)) \o QuadTo(x + w, bottom, cx, bottom)
     \o QuadTo(x, bottom, x, bottom - Pct(h, 10))
     \o LineTo(x + s, bottom - Pct(h, 10))
     \o QuadTo(x + s, bottom - s, cx, bottom - s)
     \o QuadTo(x + w - s, bottom - s, x + w - s, bottom - Pct(h, 10))
     \o LineTo(x + w - s, y + s) \o QuadTo(x + Pct(w, 60), y + Pct(s, 50), cx, y)
     \o QuadTo(x, y, x, cy) \o QuadTo(x, top, cx, top)
     \o QuadTo(x + w - s, top, x + w - s, cy) \o ClosePath
     \o <<" ">> \o MoveTo(x + w - s, cy) \o QuadTo(x + w - s, top + s, cx, top + s)
     \o QuadTo(x + s, top + s, x + s, cy) \o QuadTo(x + s, y - s, cx, y - s)
     \o QuadTo(x + w - s, y - s, x + w - s, cy) \o ClosePath

\* paths.h
Glyph_h(x, y, w, h, s) ==
  LET top    == y - h
      lowTop == y - Pct(h, 70)
      cx     == x + Pct(w, 60)
  IN MoveTo(x, top) \o LineTo(x + s, top) \o LineTo(x + s, lowTop + s)
     \o QuadTo(x + Pct(w, 40), lowTop - Pct(s, 30), cx, lowTop)
     \o QuadTo(x + w, lowTop, x + w, lowTop + Pct(h, 20)) \o LineTo(x + w, y)
     \o LineTo(x + w - s, y) \o LineTo(x + w - s, lowTop + Pct(h, 20))
     \o QuadTo(x + w - s, lowTop + s, cx, lowTop + s)
     \o QuadTo(x + s, lowTop + s, x + s, lowTop + Pct(h, 20)) \o LineTo(x + s, y)
     \o LineTo(x, y) \o ClosePath

\* paths.i
Glyph_i(x, y, w, h, s) ==
  LET top   == y - Pct(h, 70)
      cx    == x + Pct(w, 50)
      dotY  == y - Pct(h, 85)
      dotR  == Pct(s, 90)
      stemW == Pct(s, 90)
  IN MoveTo(cx - stemW, top) \o LineTo(cx + stemW, top) \o LineTo(cx + stemW, y)
     \o LineTo(cx - stemW, y) \o ClosePath \o <<" ">> \o MoveTo(cx, dotY - dotR)
     \o QuadTo(cx + dotR, dotY - dotR, cx + dotR, dotY)
     \o QuadTo(cx + dotR, dotY + dotR, cx, dotY + dotR)
     \o QuadTo(cx - dotR, dotY + dotR, cx - dotR, dotY)
     \o QuadTo(cx - dotR, dotY - dotR, cx, dotY - dotR) \o ClosePath

\* paths.j
Glyph_j(x, y, w, h, s) ==
  LET top    == y - Pct(h, 70)
      cx     == x + Pct(w, 60)
      dotY   == y - Pct(h, 85)
      dotR   == Pct(s, 90)
      bottom == y + Pct(h, 20)
      stemW  == Pct(s, 90)
  IN MoveTo(cx - stemW, top) \o LineTo(cx + stemW, top)
     \o LineTo(cx + stemW, bottom - Pct(h, 10))
     \o QuadTo(cx + stemW, bottom, x + Pct(w, 30), bottom)
     \o QuadTo(x, bottom, x, bottom - Pct(h, 10))
     \o LineTo(x + s, bottom - Pct(h, 10))
     \o QuadTo(x + s, bottom - s, x + Pct(w, 30), bottom - s)
     \o QuadTo(cx - stemW, bottom - s, cx - stemW, bottom - Pct(h, 10)) \o ClosePath
     \o <<" ">> \o MoveTo(cx, dotY - dotR)
     \o QuadTo(cx + dotR, dotY - dotR, cx + dotR, dotY)
     \o QuadTo(cx + dotR, dotY + dotR, cx, dotY + dotR)
     \o QuadTo(cx - dotR, dotY + dotR, cx - dotR, dotY)
     \o QuadTo(cx - dotR, dotY - dotR, cx, dotY - dotR) \o ClosePath

\* paths.k
Glyph_k(x, y, w, h, s) ==
  LET top    == y - h
      lowTop == y - Pct(h, 70)
      mid    == y - Pct(h, 35)
  IN MoveTo(x, top) \o LineTo(x + s, top) \o LineTo(x + s, mid - s)
     \o LineTo(x + w - s, lowTop) \o LineTo(x + w, lowTop)
     \o LineTo(x + Pct(s, 150), mid) \o LineTo(x + w, y) \o LineTo(x + w - s, y)
     \o LineTo(x + s, mid + s) \o LineTo(x + s, y) \o LineTo(x, y) \o ClosePath

\* paths.l
Glyph_l(x, y, w, h, s) ==
  LET top   == y - h
      cx    == x + Pct(w, 50)
      stemW == Pct(s, 90)
  IN MoveTo(cx - stemW, top) \o LineTo(cx + stemW, top) \o LineTo(cx + stemW, y)
     \o LineTo(cx - stemW, y) \o ClosePath

\* paths.m
Glyph_m(x, y, w, h, s) ==
  LET hh  == Pct(h, 70)
      top == y - hh
  IN MoveTo(x, top) \o LineTo(x + s, top) \o LineTo(x + s, top + s)
     \o QuadTo(x + Pct(w, 20), top - Pct(s, 30), x + Pct(w, 30), top)
     \o QuadTo(x + Pct(w, 45), top, x + Pct(w, 45), top + Pct(hh, 25))
     \o LineTo(x + Pct(w, 45), top + s)
     \o QuadTo(x + Pct(w, 55), top - Pct(s, 30), x + Pct(w, 65), top)
     \o QuadTo(x + w, top, x + w, top + Pct(hh, 25)) \o LineTo(x + w, y)
     \o LineTo(x + w - s, y) \o LineTo(x + w - s, top + Pct(hh, 25))
     \o QuadTo(x + w - s, top + s, x + Pct(w, 65), top + s)
     \o QuadTo(x + Pct(w, 55), top + s, x + Pct(w, 55), top + Pct(hh, 25))
     \o LineTo(x + Pct(w, 55), y) \o LineTo(x + Pct(w, 45), y)
     \o LineTo(x + Pct(w, 45), top + Pct(hh, 25))
     \o QuadTo(x + Pct(w, 45), top + s, x + Pct(w, 30), top + s)
     \o QuadTo(x + s, top + s, x + s, top + Pct(hh, 25)) \o LineTo(x + s, y)
     \o LineTo(x, y) \o ClosePath

\* paths.n
Glyph_n(x, y, w, h, s) ==
  LET hh  == Pct(h, 70)
      top == y - hh
      cx  == x + Pct(w, 60)
  IN MoveTo(x, top) \o LineTo(x + s, top) \o LineTo(x + s, top + s)
     \o QuadTo(x + Pct(w, 40), top - Pct(s, 30), cx, top)
     \o QuadTo(x + w, top, x + w, top + Pct(hh, 30)) \o LineTo(x + w, y)
     \o LineTo(x + w - s, y) \o LineTo(x + w - s, top + Pct(hh, 30))
     \o QuadTo(x + w - s, top + s, cx, top + s)
     \o QuadTo(x + s, top + s, x + s, top + Pct(hh, 30)) \o LineTo(x + s, y)
     \o LineTo(x, y) \o ClosePath

\* paths.o
Glyph_o(x, y, w, h, s) ==
  LET hh  == Pct(h, 70)
      cx  == x + Pct(w, 50)
      cy  == y - Pct(hh, 50)
      rx  == Pct(w, 50)
      ry  == Pct(hh, 50)
      irx == rx - s
      iry == ry - Pct(s, 80)
  IN MoveTo(cx - rx, cy) \o QuadTo(cx - rx, cy - ry, cx, cy - ry)
     \o QuadTo(cx + rx, cy - ry, cx + rx, cy)
     \o QuadTo(cx + rx, cy + ry, cx, cy + ry)
     \o QuadTo(cx - rx, cy + ry, cx - rx, cy) \o ClosePath
     \o <<" ">> \o MoveTo(cx - irx, cy) \o QuadTo(cx - irx, cy + iry, cx, cy + iry)
     \o QuadTo(cx + irx, cy + iry, cx + irx, cy)
     \o QuadTo(cx + irx, cy - iry, cx, cy - iry)
     \o QuadTo(cx - irx, cy - iry, cx - irx, cy) \o ClosePath

\* paths.p
Glyph_p(x, y, w, h, s) ==
  LET hh     == Pct(h, 70)
      top    == y - hh
      cx     == x + Pct(w, 55)
      cy     == y - Pct(hh, 50)
      bottom == y + Pct(h, 25)
  IN MoveTo(x, top) \o LineTo(x + s, top) \o LineTo(x + s, top + s)
     \o QuadTo(x + Pct(w, 40), top - Pct(s, 30), cx, top)
     \o QuadTo(x + w, top, x + w, cy) \o QuadTo(x + w, y, cx, y)
     \o QuadTo(x + s, y, x + s, y) \o LineTo(x + s, bottom) \o LineTo(x, bottom)
     \o ClosePath \o <<" ">> \o MoveTo(x + s, cy) \o QuadTo(x + s, y - s, cx, y - s)
     \o QuadTo(x + w - s, y - s, x + w - s, cy)
     \o QuadTo(x + w - s, top + s, cx, top + s) \o QuadTo(x + s, top + s, x + s, cy)
     \o ClosePath

\* paths.q
Glyph_q(x, y, w, h, s) ==
  LET hh     == Pct(h, 70)
      top    == y - hh
      cx     == x + Pct(w, 45)
      cy     == y - Pct(hh, 50)
      bottom == y + Pct(h, 25)
  IN MoveTo(x + w - s, top) \o LineTo(x + w, top) \o LineTo(x + w, bottom)
     \o LineTo(x + w - s, bottom) \o LineTo(x + w - s, y - s)
     \o QuadTo(x + Pct(w, 60), y + Pct(s, 30), cx, y) \o QuadTo(x, y, x, cy)
     \o QuadTo(x, top, cx, top) \o QuadTo(x + w - s, top, x + w - s, top + s)
     \o ClosePath \o <<" ">> \o MoveTo(x + w - s, cy)
     \o QuadTo(x + w - s, top + s, cx, top + s) \o QuadTo(x + s, top + s, x + s, cy)
     \o QuadTo(x + s, y - s, cx, y - s) \o QuadTo(x + w - s, y - s, x + w - s, cy)
     \o ClosePath

\* paths.r
Glyph_r(x, y, w, h, s) ==
  LET hh  == Pct(h, 70)
      top == y - hh
  IN MoveTo(x, top) \o LineTo(x + s, top) \o LineTo(x + s, top + s)
     \o QuadTo(x + Pct(w, 40), top - Pct(s, 30), x + Pct(w, 60), top)
     \o QuadTo(x + w, top, x + w, top + Pct(hh, 20))
     \o LineTo(x + w - s, top + Pct(hh, 20))
     \o QuadTo(x + w - s, top + s, x + Pct(w, 60), top + s)
     \o QuadTo(x + s, top + s, x + s, top + Pct(hh, 25)) \o LineTo(x + s, y)
     \o LineTo(x, y) \o ClosePath

\* paths.s
Glyph_s(x, y, w, h, s) ==
  LET hh  == Pct(h, 70)
      top == y - hh
      mid == y - Pct(hh, 50)
      cx  == x + Pct(w, 50)
  IN MoveTo(x + w, top + Pct(hh, 15)) \o QuadTo(x + w, top, cx, top)
     \o QuadTo(x, top, x, top + Pct(hh, 25)) \o QuadTo(x, mid, cx, mid)
     \o QuadTo(x + w - s, mid, x + w - s, y - Pct(hh, 25))
     \o QuadTo(x + w - s, y - s, cx, y - s)
     \o QuadTo(x + s, y - s, x + s, y - Pct(hh, 15)) \o LineTo(x, y - Pct(hh, 15))
     \o QuadTo(x, y, cx, y) \o QuadTo(x + w, y, x + w, y - Pct(hh, 25))
     \o QuadTo(x + w, mid, cx, mid) \o QuadTo(x + s, mid, x + s, top + Pct(hh, 25))
     \o QuadTo(x + s, top + s, cx, top + s)
     \o QuadTo(x + w - s, top + s, x + w - s, top + Pct(hh, 15)) \o ClosePath

\* paths.t
Glyph_t(x, y, w, h, s) ==
  LET top    == y - Pct(h, 85)
      crossY == y - Pct(h, 65)
      cx     == x + Pct(w, 50)
      stemW  == Pct(s, 90)
  IN MoveTo(cx - stemW, top) \o LineTo(cx + stemW, top)
     \o LineTo(cx + stemW, crossY - Pct(s, 50))
     \o LineTo(x + Pct(w, 85), crossY - Pct(s, 50))
     \o LineTo(x + Pct(w, 85), crossY + Pct(s, 50))
     \o LineTo(cx + stemW, crossY + Pct(s, 50))
     \o LineTo(cx + stemW, y - Pct(h, 10))
     \o QuadTo(cx + stemW, y, x + Pct(w, 70), y)
     \o QuadTo(x + w, y, x + w, y - Pct(h, 10)) \o LineTo(x + w - s, y - Pct(h, 10))
     \o QuadTo(x + w - s, y - s, x + Pct(w, 70), y - s)
     \o QuadTo(cx - stemW, y - s, cx - stemW, y - Pct(h, 10))
     \o LineTo(cx - stemW, crossY + Pct(s, 50))
     \o LineTo(x + Pct(w, 15), crossY + Pct(s, 50))
     \o LineTo(x + Pct(w, 15), crossY - Pct(s, 50))
     \o LineTo(cx - stemW, crossY - Pct(s, 50)) \o ClosePath

\* paths.u
Glyph_u(x, y, w, h, s) ==
  LET hh  == Pct(h, 70)
      top == y - hh
      cx  == x + Pct(w, 50)
  IN MoveTo(x, top) \o LineTo(x + s, top) \o LineTo(x + s, y - Pct(hh, 35))
     \o QuadTo(x + s, y - s, cx, y - s)
     \o QuadTo(x + w - s, y - s, x + w - s, y - Pct(hh, 35))
     \o LineTo(x + w - s, top) \o LineTo(x + w, top) \o LineTo(x + w, y)
     \o LineTo(x + w - s, y) \o LineTo(x + w - s, y - s)
     \o QuadTo(x + Pct(w, 60), y + Pct(s, 30), cx, y)
     \o QuadTo(x, y, x, y - Pct(hh, 35)) \o ClosePath

\* paths.v
Glyph_v(x, y, w, h, s) ==
  LET hh  == Pct(h, 70)
      top == y - hh
      cx  == x + Pct(w, 50)
  IN MoveTo(x, top) \o LineTo(x + s, top) \o LineTo(cx, y - s)
     \o LineTo(x + w - s, top) \o LineTo(x + w, top) \o LineTo(cx + Pct(s, 50), y)
     \o LineTo(cx - Pct(s, 50), y) \o ClosePath

\* paths.w
Glyph_w(x, y, w, h, s) ==
  LET hh  == Pct(h, 70)
      top == y - hh
  IN MoveTo(x, top) \o LineTo(x + s, top) \o LineTo(x + Pct(w, 25), y - s)
     \o LineTo(x + Pct(w, 50), top + s * 2) \o LineTo(x + Pct(w, 75), y - s)
     \o LineTo(x + w - s, top) \o LineTo(x + w, top) \o LineTo(x + Pct(w, 80), y)
     \o LineTo(x + Pct(w, 70), y) \o LineTo(x + Pct(w, 50), top + s * 3)
     \o LineTo(x + Pct(w, 30), y) \o LineTo(x + Pct(w, 20), y) \o ClosePath

\* paths.x
Glyph_x(x, y, w, h, s) ==
  LET hh  == Pct(h, 70)
      top == y - hh
      cx  == x + Pct(w, 50)
      cy  == y - Pct(hh, 50)
  IN MoveTo(x, top) \o LineTo(x + s, top) \o LineTo(cx, cy - Pct(s, 50))
     \o LineTo(x + w - s, top) \o LineTo(x + w, top) \o LineTo(cx + Pct(s, 70), cy)
     \o LineTo(x + w, y) \o LineTo(x + w - s, y) \o LineTo(cx, cy + Pct(s, 50))
     \o LineTo(x + s, y) \o LineTo(x, y) \o LineTo(cx - Pct(s, 70), cy) \o ClosePath

\* paths.y
Glyph_y(x, y, w, h, s) ==
  LET hh     == Pct(h, 70)
      top    == y - hh
      cx     == x + Pct(w, 50)
      bottom == y + Pct(h, 25)
  IN MoveTo(x, top) \o LineTo(x + s, top) \o LineTo(cx, y - s)
     \o LineTo(x + w - s, top) \o LineTo(x + w, top) \o LineTo(cx + Pct(s, 50), y)
     \o LineTo(cx + Pct(s, 50), bottom - Pct(h, 10))
     \o QuadTo(cx + Pct(s, 50), bottom, x + Pct(w, 30), bottom)
     \o QuadTo(x, bottom, x, bottom - Pct(h, 10))
     \o LineTo(x + s, bottom - Pct(h, 10))
     \o QuadTo(x + s, bottom - s, x + Pct(w, 30), bottom - s)
     \o QuadTo(cx - Pct(s, 50), bottom - s, cx - Pct(s, 50), bottom - Pct(h, 10))
     \o LineTo(cx - Pct(s, 50), y) \o ClosePath

\* paths.z
Glyph_z(x, y, w, h, s) ==
  LET hh  == Pct(h, 70)
      top == y - hh
  IN MoveTo(x, top) \o LineTo(x + w, top) \o LineTo(x + w, top + s)
     \o LineTo(x + Pct(s, 150), y - s) \o LineTo(x + w, y - s) \o LineTo(x + w, y)
     \o LineTo(x, y) \o LineTo(x, y - s) \o LineTo(x + w - Pct(s, 150), top + s)
     \o LineTo(x, top + s) \o ClosePath

\* paths['.']
GlyphPeriod(x, y, w, h, s) ==
  LET cx == x + Pct(w, 50)
      cy == y - s
      r  == Pct(s, 80)
  IN MoveTo(cx, cy - r) \o QuadTo(cx + r, cy - r, cx + r, cy)
     \o QuadTo(cx + r, cy + r, cx, cy + r) \o QuadTo(cx - r, cy + r, cx - r, cy)
     \o QuadTo(cx - r, cy - r, cx, cy - r) \o ClosePath

\* paths[',']
GlyphComma(x, y, w, h, s) ==
  LET cx  == x + Pct(w, 50)
      top == y - s
  IN MoveTo(cx - Pct(s, 40), top) \o LineTo(cx + Pct(s, 40), top)
     \o LineTo(cx + Pct(s, 40), y) \o LineTo(cx - Pct(s, 40), y + Pct(h, 15))
     \o ClosePath

\* paths['!']
GlyphExclamation(x, y, w, h, s) ==
  LET cx   == x + Pct(w, 50)
      top  == y - h
      dotY == y - s
      r    == Pct(s, 80)
  IN MoveTo(cx - Pct(s, 50), top) \o LineTo(cx + Pct(s, 50), top)
     \o LineTo(cx + Pct(s, 30), y - Pct(h, 30))
     \o LineTo(cx - Pct(s, 30), y - Pct(h, 30)) \o ClosePath
     \o <<" ">> \o MoveTo(cx, dotY - r) \o QuadTo(cx + r, dotY - r, cx + r, dotY)
     \o QuadTo(cx + r, dotY + r, cx, dotY + r)
     \o QuadTo(cx - r, dotY + r, cx - r, dotY)
     \o QuadTo(cx - r, dotY - r, cx, dotY - r) \o ClosePath

\* paths['?']
GlyphQuestion(x, y, w, h, s) ==
  LET cx   == x + Pct(w, 50)
      top  == y - h
      dotY == y - s
      r    == Pct(s, 80)
  IN MoveTo(x, top + Pct(h, 20)) \o QuadTo(x, top, cx, top)
     \o QuadTo(x + w, top, x + w, top + Pct(h, 30))
     \o QuadTo(x + w, top + Pct(h, 50), cx, top + Pct(h, 50))
     \o LineTo(cx, y - Pct(h, 30)) \o LineTo(cx - Pct(s, 50), y - Pct(h, 30))
     \o LineTo(cx - Pct(s, 50), top + Pct(h, 50) - s)
     \o QuadTo(x + w - s, top + Pct(h, 50) - s, x + w - s, top + Pct(h, 30))
     \o QuadTo(x + w - s, top + s, cx, top + s)
     \o QuadTo(x + s, top + s, x + s, top + Pct(h, 20)) \o ClosePath
     \o <<" ">> \o MoveTo(cx, dotY - r) \o QuadTo(cx + r, dotY - r, cx + r, dotY)
     \o QuadTo(cx + r, dotY + r, cx, dotY + r)
     \o QuadTo(cx - r, dotY + r, cx - r, dotY)
     \o QuadTo(cx - r, dotY - r, cx, dotY - r) \o ClosePath

\* variant: the rectangle without its closing Z
defaultPathOpen(char, x, y, w, h) ==
  LET actualH == IF char \notin LowerCaseChars THEN h ELSE Pct(h, 70)
      startY  == y - actualH
  IN MoveTo(x + Pct(w, 10), startY) \o LineTo(x + Pct(w, 90), startY)
     \o LineTo(x + Pct(w, 90), y) \o LineTo(x + Pct(w, 10), y)

\* the fallback rectangle of a character without an entry in paths
defaultPath(char, x, y, w, h) ==
  LET actualH == IF char \notin LowerCaseChars THEN h ELSE Pct(h, 70)
      startY  == y - actualH
  IN MoveTo(x + Pct(w, 10), startY) \o LineTo(x + Pct(w, 90), startY)
     \o LineTo(x + Pct(w, 90), y) \o LineTo(x + Pct(w, 10), y) \o ClosePath

characterToPath(char, x, y, width, height) ==
  LET s == Pct(width, 15)
  IN CASE char = "A" -> GlyphA(x, y, width, height, s)
       [] char = "B" -> GlyphB(x, y, width, height, s)
       [] char = "C" -> GlyphC(x, y, width, height, s)
       [] char = "D" -> GlyphD(x, y, width, height, s)
       [] char = "E" -> GlyphE(x, y, width, height, s)
       [] char = "F" -> GlyphF(x, y, width, height, s)
       [] char = "G" -> GlyphG(x, y, width, height, s)
       [] char = "H" -> GlyphH(x, y, width, height, s)
       [] char = "I" -> GlyphI(x, y, width, height, s)
       [] char = "J" -> GlyphJ(x, y, width, height, s)
       [] char = "K" -> GlyphK(x, y, width, height, s)
       [] char = "L" -> GlyphL(x, y, width, height, s)
       [] char = "M" -> GlyphM(x, y, width, height, s)
       [] char = "N" -> GlyphN(x, y, width, height, s)
       [] char = "O" -> GlyphO(x, y, width, height, s)
       [] char = "P" -> GlyphP(x, y, width, height, s)
       [] char = "Q" -> GlyphQ(x, y, width, height, s)
       [] char = "R" -> GlyphR(x, y, width, height, s)
       [] char = "S" -> GlyphS(x, y, width, height, s)
       [] char = "T" -> GlyphT(x, y, width, height, s)
       [] char = "U" -> GlyphU(x, y, width, height, s)
       [] char = "V" -> GlyphV(x, y, width, height, s)
       [] char = "W" -> GlyphW(x, y, width, height, s)
       [] char = "X" -> GlyphX(x, y, width, height, s)
       [] char = "Y" -> GlyphY(x, y, width, height, s)
       [] char = "Z" -> GlyphZ(x, y, width, height, s)
       [] char = "a" -> Glyph_a(x, y, width, height, s)
       [] char = "b" -> Glyph_b(x, y, width, height, s)
       [] char = "c" -> Glyph_c(x, y, width, height, s)
       [] char = "d" -> Glyph_d(x, y, width, height, s)
       [] char = "e" -> Glyph_e(x, y, width, height, s)
       [] char = "f" -> Glyph_f(x, y, width, height, s)
       [] char = "g" -> Glyph_g(x, y, width, height, s)
       [] char = "h" -> Glyph_h(x, y, width, height, s)
       [] char = "i" -> Glyph_i(x, y, width, height, s)
       [] char = "j" -> Glyph_j(x, y, width, height, s)
       [] char = "k" -> Glyph_k(x, y, width, height, s)
       [] char = "l" -> Glyph_l(x, y, width, height, s)
       [] char = "m" -> Glyph_m(x, y, width, height, s)
       [] char = "n" -> Glyph_n(x, y, width, height, s)
       [] char = "o" -> Glyph_o(x, y, width, height, s)
       [] char = "p" -> Glyph_p(x, y, width, height, s)
       [] char = "q" -> Glyph_q(x, y, width, height, s)
       [] char = "r" -> Glyph_r(x, y, width, height, s)
       [] char = "s" -> Glyph_s(x, y, width, height, s)
       [] char = "t" -> Glyph_t(x, y, width, height, s)
       [] char = "u" -> Glyph_u(x, y, width, height, s)
       [] char = "v" -> Glyph_v(x, y, width, height, s)
       [] char = "w" -> Glyph_w(x, y, width, height, s)
       [] char = "x" -> Glyph_x(x, y, width, height, s)
       [] char = "y" -> Glyph_y(x, y, width, height, s)
       [] char = "z" -> Glyph_z(x, y, width, height, s)
       [] char = " " -> <<>>
       [] char = "." -> GlyphPeriod(x, y, width, height, s)
       [] char = "," -> GlyphComma(x, y, width, height, s)
       [] char = "!" -> GlyphExclamation(x, y, width, height, s)
       [] char = "?" -> GlyphQuestion(x, y, width, height, s)
       [] OTHER -> defaultPath(char, x, y, width, height)

\* ctx.measureText(char).width for the font at fontSize: the metrics
\* collaborator, here half an em for a glyph and a quarter for the space
measureText(char, fontSize) ==
  IF char = " " THEN (fontSize * Scale) \div 4 ELSE (fontSize * Scale) \div 2

RECURSIVE measureString(_, _)
measureString(text, fontSize) ==
  IF text = <<>> THEN 0
  ELSE measureText(Head(text), fontSize) + measureString(Tail(text), fontSize)

RECURSIVE layoutLetters(_, _, _, _)
layoutLetters(text, fontSize, currentX, startY) ==
  IF text = <<>> THEN <<>>
  ELSE LET charWidth == measureText(Head(text), fontSize)
       IN <<characterToPath(Head(text), currentX, startY, charWidth, fontSize * Scale)>>
          \o layoutLetters(Tail(text), fontSize, currentX + charWidth, startY)

RECURSIVE Concat(_)
Concat(ss) == IF ss = <<>> THEN <<>> ELSE Head(ss) \o Concat(Tail(ss))

\* variant: perLetterPaths.join(' ')
textToPathWithLettersSpaced(text, fontSize, startX, startY, ctx) ==
  IF ~ctx THEN [fullPath |-> <<>>, perLetterPaths |-> <<>>]
  ELSE LET perLetterPaths == layoutLetters(text, fontSize, startX, startY)
       IN [fullPath |-> Concat([i \in 1..Len(perLetterPaths) |->
                                  perLetterPaths[i] \o <<" ">>]),
           perLetterPaths |-> perLetterPaths]

\* ctx is whether canvas.getContext('2d') returned a context
textToPathWithLetters(text, fontSize, startX, startY, ctx) ==
  IF ~ctx THEN [fullPath |-> <<>>, perLetterPaths |-> <<>>]
  ELSE LET perLetterPaths == layoutLetters(text, fontSize, startX, startY)
       IN [fullPath |-> Concat(perLetterPaths), perLetterPaths |-> perLetterPaths]

\* ------------------------------------------------------------------------
\* Perturbation engine
\* ------------------------------------------------------------------------

\* Math.random() takes the values r / 4 for r in RandomValues
RandomValues == {0, 3}

\* variant: Math.random() * 2 * intensity
JiggleOffsetUncentred(r, intensity) == Quot(2 * r * intensity, 4)

\* variant: (Math.random() - 0.5) * 2 + intensity
JiggleOffsetAdded(r, intensity) == Quot((2 * r - 4) * Scale, 4) + intensity

\* (Math.random() - 0.5) * 2 * intensity
JiggleOffset(r, intensity) == Quot((2 * r - 4) * intensity, 4)

IsClose(cmd) == cmd.command = "Z" \/ cmd.command = "z"

\* number of Math.random() calls jiggleCommands makes
RECURSIVE DrawCount(_)
DrawCount(commands) ==
  IF commands = <<>> THEN 0
  ELSE (IF IsClose(Head(commands)) THEN 0 ELSE Len(Head(commands).originalValues))
       + DrawCount(Tail(commands))

\* rnd is the stream of Math.random() results, used of which are consumed
RECURSIVE jiggleCommands(_, _, _, _)
jiggleCommands(commands, intensity, rnd, used) ==
  IF commands = <<>> THEN <<>>
  ELSE LET cmd == Head(commands)
       IN IF IsClose(cmd)
          THEN <<cmd>> \o jiggleCommands(Tail(commands), intensity, rnd, used)
          ELSE LET jiggled == [i \in 1..Len(cmd.originalValues) |->
                                 Plus(cmd.originalValues[i],
                                      JiggleOffset(rnd[used + i], intensity))]
               IN <<[cmd EXCEPT !.values = jiggled]>>
                  \o jiggleCommands(Tail(commands), intensity, rnd,
                                    used + Len(cmd.originalValues))

\* variant: the guard without distance > 0
InReachOnPointer(distance, radius) == distance < radius

\* the guard of the push: inside the radius and not on the pointer
InReach(distance, radius) == distance < radius /\ distance > 0

\* variant: (distance / radius) * strength
pushForceRising(distance, radius, strength) == Quot(distance * strength, radius)

\* (1 - distance / radius) * strength
pushForce(distance, radius, strength) ==
  Quot((radius - distance) * strength, radius)

\* one operand of morphCommandsWithMouse (idx counts from 1)
morphValue(values, idx, mouseX, mouseY, radius, strength) ==
  LET val        == values[idx]
      isX        == (idx - 1) % 2 = 0
      otherIdx   == IF isX THEN idx + 1 ELSE idx - 1
      otherValue == IF otherIdx \in 1..Len(values) THEN values[otherIdx] ELSE val
      pointX     == IF isX THEN val ELSE otherValue
      pointY     == IF isX THEN otherValue ELSE val
      dx         == pointX - mouseX
      dy         == pointY - mouseY
      distance   == Sqrt(dx * dx + dy * dy)
      force      == pushForce(distance, radius, strength)
      pushX      == Quot(dx * force, distance)
      pushY      == Quot(dy * force, distance)
  IN IF InReach(distance, radius)
     THEN Plus(val, IF isX THEN pushX ELSE pushY)
     ELSE val

\* variant: the push computed from and added to cmd.originalValues
morphCommandsWithMouseFromBase(commands, mouseX, mouseY, radius, strength) ==
  [j \in 1..Len(commands) |->
     IF IsClose(commands[j]) THEN commands[j]
     ELSE [commands[j] EXCEPT !.values =
             [i \in 1..Len(commands[j].values) |->
                morphValue(commands[j].originalValues, i, mouseX, mouseY, radius,
                           strength)]]]

\* variant: the close commands filtered out instead of passed through
morphCommandsWithMouseOpenOnly(commands, mouseX, mouseY, radius, strength) ==
  LET open == SelectSeq(commands, LAMBDA c : ~IsClose(c))
  IN [j \in 1..Len(open) |->
        [open[j] EXCEPT !.values =
           [i \in 1..Len(open[j].values) |->
              morphValue(open[j].values, i, mouseX, mouseY, radius, strength)]]]

morphCommandsWithMouse(commands, mouseX, mouseY, radius, strength) ==
  [j \in 1..Len(commands) |->
     IF IsClose(commands[j]) THEN commands[j]
     ELSE [commands[j] EXCEPT !.values =
             [i \in 1..Len(commands[j].values) |->
                morphValue(commands[j].values, i, mouseX, mouseY, radius, strength)]]]

\* Math.sin(k * Math.PI / 2)
SinQuarter(k) == <<0, 1, 0, -1>>[(k % 4) + 1]

\* variant: the sine of the elapsed time alone
waveIntensityNoPhase(elapsed, letterPhase) ==
  (SinQuarter(elapsed) * Scale) \div 2 + Scale \div 2

\* variant: Math.sin(...) + 0.5
waveIntensityFullSwing(elapsed, letterPhase) ==
  SinQuarter(elapsed - letterPhase) * Scale + Scale \div 2

\* Math.sin(((elapsed - letterPhase) / 200) * Math.PI) * 0.5 + 0.5
waveIntensity(elapsed, letterPhase) ==
  (SinQuarter(elapsed - letterPhase) * Scale) \div 2 + Scale \div 2

\* ------------------------------------------------------------------------
\* The component: state
\* ------------------------------------------------------------------------

VARIABLES
  props,               \* the props of the latest render
  mounted,             \* the component is in the tree
  dirty,               \* passive effects committed but not yet flushed
  hasCleanup,          \* the animation effect's last run returned its cleanup
  pathData,            \* useState: the displayed outline
  viewBox,             \* useState
  svgDimensions,       \* useState
  originalCommandsRef,
  letterCommandsRef,
  animationFrameRef,   \* 0 stands for undefined
  lastUpdateRef,
  mousePositionRef,    \* <<>> stands for null, <<x, y>> for a position
  waveStartTimeRef,
  pending,             \* requestAnimationFrame callbacks not yet run: handle,
                       \* the props animate closes over, start of its loop
  now,                 \* performance.now()
  renders,             \* renders with changed props so far
  lastLayout,          \* history: the last layout that ran to its end
  lastMove,            \* history: where the last mousemove event on the svg
                       \* was, <<>> when none came since the last mouseleave
  probe                \* history: what the last frame or run of effects did

vars ==
  <<props, mounted, dirty, hasCleanup, pathData, viewBox, svgDimensions,
    originalCommandsRef, letterCommandsRef, animationFrameRef, lastUpdateRef,
    mousePositionRef, waveStartTimeRef, pending, now, renders, lastLayout, lastMove,
    probe>>

\* texts the component is rendered with
Texts == {<<>>, <<",">>, <<" ", " ">>, <<" ", "#">>}

\* the props a render may carry (JigglyTextProps; the presentational ones
\* do not reach the outline)
FontSizes == {20}

PropsSpace ==
  [text : Texts, fontSize : FontSizes, animated : BOOLEAN, intensity : {0, 20},
   speed : {2}, interactsWithMouse : BOOLEAN, mouseRadius : {500},
   mouseStrength : {150}, waveMode : BOOLEAN, waveDelay : {1}]

\* pointer events: offset from the svg's corner in px, and the ratio of the
\* on-screen size of the svg to its viewBox
PointerOffsets == {<<15, 20>>}

\* a second place of the pointer, for the runs that follow the pointer
FarOffsets == {<<40, 20>>}

RectRatios == {2}

PropNames ==
  {"text", "fontSize", "animated", "intensity", "speed", "interactsWithMouse",
   "mouseRadius", "mouseStrength", "waveMode", "waveDelay"}

\* for each props of a render, those that differ from it in one prop
PropChangesOf ==
  [old \in PropsSpace |->
     {p \in PropsSpace : Cardinality({f \in PropNames : p[f] # old[f]}) = 1}]

\* the props a re-render may carry: one prop differs from the last render
PropChanges(old) == PropChangesOf[old]

\* dependency lists of the two effects
LayoutDeps(p) == <<p.text, p.fontSize>>

AnimationDeps(p) ==
  <<p.animated, p.intensity, p.speed, p.interactsWithMouse, p.mouseRadius,
    p.mouseStrength, p.waveMode, p.waveDelay>>

\* requestAnimationFrame's return value: a handle no reference still holds
FreshHandle(held) == CHOOSE h \in 1..(Cardinality(held) + 1) : h \notin held

\* streams of n Math.random() results: one value for the draws of odd
\* rank, one for those of even rank
RandomStreams(n) ==
  {[i \in 1..n |-> IF i % 2 = 1 THEN a ELSE b] : a \in RandomValues, b \in RandomValues}

\* Math.ceil(v / Scale)
CeilPx(v) == (v + Scale - 1) \div Scale

Init ==
  /\ props \in PropsSpace
  /\ mounted = TRUE
  /\ dirty = {"layout", "animation"}
  /\ hasCleanup = FALSE
  /\ pathData = <<>>
  /\ viewBox = <<0, 0, 100, 100>>
  /\ svgDimensions = [width |-> 100, height |-> 100]
  /\ originalCommandsRef = <<>>
  /\ letterCommandsRef = <<>>
  /\ animationFrameRef = 0
  /\ lastUpdateRef = 0
  /\ mousePositionRef = <<>>
  /\ lastMove = <<>>
  /\ waveStartTimeRef = 0
  /\ pending = {}
  /\ now = 0
  /\ renders = 0
  /\ lastLayout = [done |-> FALSE, text |-> <<>>, fontSize |-> 0, ctx |-> FALSE,
                   time |-> 0]
  /\ probe = [kind |-> "none"]

\* ------------------------------------------------------------------------
\* The layout effect (useEffect on [text, font, fontSize])
\* ------------------------------------------------------------------------

\* what the effect leaves when it returns before writing anything
LayoutKept ==
  [ran |-> FALSE, originalCommands |-> originalCommandsRef,
   letterCommands |-> letterCommandsRef, pathData |-> pathData,
   viewBox |-> viewBox, svgDimensions |-> svgDimensions,
   waveStartTime |-> waveStartTimeRef]

\* variant: the effect without waveStartTimeRef.current = performance.now()
layoutEffectKeepsClock(ctx1, ctx2) ==
  IF ~ctx1 THEN LayoutKept
  ELSE LET width  == CeilPx(measureString(props.text, props.fontSize)) + 20
           height == props.fontSize + 20
           paths  == textToPathWithLetters(props.text, props.fontSize, 10 * Scale,
                                           props.fontSize * Scale, ctx2)
       IN [ran |-> TRUE,
           originalCommands |-> parsePathData(paths.fullPath),
           letterCommands |-> [i \in 1..Len(paths.perLetterPaths) |->
                                 parsePathData(paths.perLetterPaths[i])],
           pathData |-> paths.fullPath,
           viewBox |-> <<0, 0, width, height>>,
           svgDimensions |-> [width |-> width, height |-> height],
           waveStartTime |-> waveStartTimeRef]

\* ctx1 and ctx2: whether the effect's and textToPathWithLetters' call of
\* getContext('2d') returned a context
layoutEffect(ctx1, ctx2) ==
  IF ~ctx1 THEN LayoutKept
  ELSE LET width  == CeilPx(measureString(props.text, props.fontSize)) + 20
           height == props.fontSize + 20
           paths  == textToPathWithLetters(props.text, props.fontSize, 10 * Scale,
                                           props.fontSize * Scale, ctx2)
       IN [ran |-> TRUE,
           originalCommands |-> parsePathData(paths.fullPath),
           letterCommands |-> [i \in 1..Len(paths.perLetterPaths) |->
                                 parsePathData(paths.perLetterPaths[i])],
           pathData |-> paths.fullPath,
           viewBox |-> <<0, 0, width, height>>,
           svgDimensions |-> [width |-> width, height |-> height],
           waveStartTime |-> now]

\* ------------------------------------------------------------------------
\* The animation effect (useEffect on the animation configuration)
\* ------------------------------------------------------------------------

\* variant: the first line without the test of the cached outline
animationGuardFlagsOnly(p, originalCommands) ==
  ~p.animated /\ ~p.interactsWithMouse

\* variant: the first line without the test of the two flags
animationGuardEmptyOnly(p, originalCommands) == Len(originalCommands) = 0

\* the effect's first line: TRUE when it returns without starting a loop
animationGuard(p, originalCommands) ==
  (~p.animated /\ ~p.interactsWithMouse) \/ Len(originalCommands) = 0

cancelAnimationFrame(handle, callbacks) == {cb \in callbacks : cb.id # handle}

\* variant: a cleanup that cancels nothing
animationCleanupKeeps(frameRef, callbacks) == callbacks

\* the function the effect returns
animationCleanup(frameRef, callbacks) ==
  IF frameRef # 0 THEN cancelAnimationFrame(frameRef, callbacks) ELSE callbacks

\* variant: no throttle
ShouldUpdateAlways(timestamp, lastUpdate, speed) == TRUE

\* timestamp - lastUpdateRef.current >= speed
ShouldUpdate(timestamp, lastUpdate, speed) == timestamp - lastUpdate >= speed

\* variant: the frame starts from the outline on display
normalCommandsCumulative(cfg, originalCommands, mouse, rnd) ==
  LET shown       == parsePathData(pathData)
      jiggledCmds == IF cfg.animated
                     THEN jiggleCommands(shown, cfg.intensity, rnd, 0)
                     ELSE shown
  IN IF cfg.interactsWithMouse /\ mouse # <<>>
     THEN morphCommandsWithMouse(jiggledCmds, mouse[1], mouse[2],
                                 cfg.mouseRadius, cfg.mouseStrength)
     ELSE jiggledCmds

\* the else branch of animate: all letters together
normalCommands(cfg, originalCommands, mouse, rnd) ==
  LET jiggledCmds == IF cfg.animated
                     THEN jiggleCommands(originalCommands, cfg.intensity, rnd, 0)
                     ELSE originalCommands
  IN IF cfg.interactsWithMouse /\ mouse # <<>>
     THEN morphCommandsWithMouse(jiggledCmds, mouse[1], mouse[2],
                                 cfg.mouseRadius, cfg.mouseStrength)
     ELSE jiggledCmds

\* the wave branch of animate: letterCommandsRef.current.map(...), index
\* counting from 0, used the Math.random() results consumed so far
RECURSIVE waveCommands(_, _, _, _, _, _, _)
waveCommands(cfg, letters, index, elapsed, mouse, rnd, used) ==
  IF letters = <<>> THEN <<>>
  ELSE LET letterCmds       == Head(letters)
           letterPhase      == index * cfg.waveDelay
           currentIntensity == Quot(cfg.intensity * waveIntensity(elapsed, letterPhase),
                                    Scale)
           fresh            == [j \in 1..Len(letterCmds) |->
                                  [letterCmds[j] EXCEPT
                                     !.values = letterCmds[j].originalValues]]
           jiggledCmds      == IF cfg.animated
                               THEN jiggleCommands(fresh, currentIntensity, rnd, used)
                               ELSE fresh
           commands         == IF cfg.interactsWithMouse /\ mouse # <<>>
                               THEN morphCommandsWithMouse(jiggledCmds, mouse[1], mouse[2],
                                        cfg.mouseRadius, cfg.mouseStrength)
                               ELSE jiggledCmds
       IN <<commands>>
          \o waveCommands(cfg, Tail(letters), index + 1, elapsed, mouse, rnd,
                          used + (IF cfg.animated THEN DrawCount(letterCmds) ELSE 0))

RECURSIVE pathsOf(_)
pathsOf(letters) ==
  IF letters = <<>> THEN <<>>
  ELSE commandsToPath(Head(letters)) \o pathsOf(Tail(letters))

\* ------------------------------------------------------------------------
\* Steps
\* ------------------------------------------------------------------------

\* React runs the effects of the last commit: the cleanups of the effects
\* whose dependencies changed, then those effects in the order of their
\* declaration.
FlushEffects(ctx1, ctx2) ==
  /\ dirty # {}
  /\ \E lay \in {IF "layout" \in dirty THEN layoutEffect(ctx1, ctx2) ELSE LayoutKept} :
     LET runAnim    == "animation" \in dirty
         cleaned    == IF hasCleanup /\ runAnim
                       THEN animationCleanup(animationFrameRef, pending)
                       ELSE pending
         start      == runAnim /\ ~animationGuard(props, lay.originalCommands)
         handle     == FreshHandle({cb.id : cb \in cleaned} \cup {animationFrameRef})
     IN /\ originalCommandsRef' = lay.originalCommands
        /\ letterCommandsRef' = lay.letterCommands
        /\ pathData' = lay.pathData
        /\ viewBox' = lay.viewBox
        /\ svgDimensions' = lay.svgDimensions
        /\ waveStartTimeRef' = lay.waveStartTime
        /\ lastLayout' = IF lay.ran
                         THEN [done |-> TRUE, text |-> props.text,
                               fontSize |-> props.fontSize, ctx |-> ctx2,
                               time |-> now]
                         ELSE lastLayout
        /\ pending' = IF start
                      THEN cleaned \cup {[id |-> handle, cfg |-> props, since |-> now]}
                      ELSE cleaned
        /\ animationFrameRef' = IF start THEN handle ELSE animationFrameRef
        /\ hasCleanup' = IF runAnim THEN start ELSE hasCleanup
        /\ probe' = [kind |-> "effects", layout |-> lay.ran, started |-> start,
                     unmount |-> FALSE,
                     noContext |-> "layout" \in dirty /\ (~ctx1 \/ ~ctx2),
                     cancelled |-> Cardinality(pending \ cleaned)]
  /\ dirty' = {}
  /\ UNCHANGED <<props, mounted, lastUpdateRef, mousePositionRef, now, renders,
                 lastMove>>

\* the parent renders the component with other props
SetProps(p) ==
  /\ mounted
  /\ dirty = {}
  /\ renders < MaxRenders
  /\ renders' = renders + 1
  /\ props' = p
  /\ dirty' = (IF LayoutDeps(p) # LayoutDeps(props) THEN {"layout"} ELSE {})
              \cup (IF AnimationDeps(p) # AnimationDeps(props) THEN {"animation"} ELSE {})
  /\ UNCHANGED <<mounted, hasCleanup, pathData, viewBox, svgDimensions,
                 originalCommandsRef, letterCommandsRef, animationFrameRef,
                 lastUpdateRef, mousePositionRef, lastMove, waveStartTimeRef, pending, now,
                 lastLayout,
                 probe>>

\* the parent removes the component: React runs the cleanup of every effect
\* that returned one
Unmount ==
  /\ mounted
  /\ dirty = {}
  /\ mounted' = FALSE
  /\ LET cleaned == IF hasCleanup
                    THEN animationCleanup(animationFrameRef, pending)
                    ELSE pending
     IN /\ pending' = cleaned
        /\ probe' = [kind |-> "effects", layout |-> FALSE, started |-> FALSE,
                     unmount |-> TRUE, noContext |-> FALSE,
                     cancelled |-> Cardinality(pending \ cleaned)]
  /\ hasCleanup' = FALSE
  /\ UNCHANGED <<props, dirty, pathData, viewBox, svgDimensions,
                 originalCommandsRef, letterCommandsRef, animationFrameRef,
                 lastUpdateRef, mousePositionRef, lastMove, waveStartTimeRef, now,
                 renders, lastLayout>>

\* the browser runs a frame: the pending callback cb is called with the
\* frame's timestamp; rnd are the results of its Math.random() calls
animate(cb, rnd) ==
  /\ cb \in pending
  /\ now < MaxTime
  /\ LET timestamp == now + 1
         cfg       == cb.cfg
         applied   == ShouldUpdate(timestamp, lastUpdateRef, cfg.speed)
         wave      == cfg.waveMode /\ Len(letterCommandsRef) > 0
         elapsed   == timestamp - waveStartTimeRef
         handle    == FreshHandle({c.id : c \in pending \ {cb}} \cup {cb.id})
     IN \E letters \in {IF ~applied THEN <<>>
                         ELSE IF wave
                         THEN waveCommands(cfg, letterCommandsRef, 0, elapsed,
                                           mousePositionRef, rnd, 0)
                         ELSE <<normalCommands(cfg, originalCommandsRef,
                                               mousePositionRef, rnd)>>} :
        /\ now' = timestamp
        /\ pathData' = IF applied /\ mounted THEN pathsOf(letters) ELSE pathData
        /\ lastUpdateRef' = IF applied THEN timestamp ELSE lastUpdateRef
        /\ animationFrameRef' = handle
        /\ pending' = (pending \ {cb}) \cup {[cb EXCEPT !.id = handle]}
        /\ probe' = [kind |-> "frame", timestamp |-> timestamp, applied |-> applied,
                     cfg |-> cfg, since |-> cb.since,
                     lastUpdate |-> lastUpdateRef, wave |-> wave,
                     elapsed |-> elapsed,
                     mouse |-> IF applied /\ cfg.interactsWithMouse
                               THEN mousePositionRef ELSE <<>>,
                     pointer |-> IF applied /\ cfg.interactsWithMouse
                                 THEN lastMove ELSE <<>>,
                     out |-> Concat(letters)]
  /\ UNCHANGED <<props, mounted, dirty, hasCleanup, viewBox, svgDimensions,
                 originalCommandsRef, letterCommandsRef, mousePositionRef, lastMove,
                 waveStartTimeRef, renders, lastLayout>>

\* onMouseMove: offset is (clientX - rect.left, clientY - rect.top) in px,
\* rect the on-screen size of the svg
handleMouseMove(offset, rect) ==
  /\ mounted
  /\ \E position \in {<<Quot(offset[1] * Scale * svgDimensions.width, rect.width),
                         Quot(offset[2] * Scale * svgDimensions.height, rect.height)>>} :
       /\ lastMove' = position
       /\ mousePositionRef' = IF ~props.interactsWithMouse THEN mousePositionRef
                              ELSE position
  /\ UNCHANGED <<props, mounted, dirty, hasCleanup, pathData, viewBox, svgDimensions,
                 originalCommandsRef, letterCommandsRef, animationFrameRef,
                 lastUpdateRef, waveStartTimeRef, pending, now, renders, lastLayout,
                 probe>>

\* onMouseLeave
handleMouseLeave ==
  /\ mounted
  /\ mousePositionRef' = <<>>
  /\ lastMove' = <<>>
  /\ UNCHANGED <<props, mounted, dirty, hasCleanup, pathData, viewBox, svgDimensions,
                 originalCommandsRef, letterCommandsRef, animationFrameRef,
                 lastUpdateRef, waveStartTimeRef, pending, now, renders, lastLayout,
                 probe>>

\* the Math.random() results of the frame that runs cb: one per operand
\* of the cached outline when it jiggles, none otherwise
FrameStreams(cb) ==
  RandomStreams(IF ShouldUpdate(now + 1, lastUpdateRef, cb.cfg.speed) /\ cb.cfg.animated
                THEN DrawCount(originalCommandsRef) ELSE 0)

\* the outcomes of the two getContext('2d') calls of a layout
ContextOutcomes ==
  IF "layout" \in dirty THEN BOOLEAN \X BOOLEAN ELSE {<<TRUE, TRUE>>}

Next ==
  \/ \E ctx \in ContextOutcomes : FlushEffects(ctx[1], ctx[2])
  \/ \E p \in PropChanges(props) : SetProps(p)
  \/ Unmount
  \/ \E cb \in pending : \E rnd \in FrameStreams(cb) : animate(cb, rnd)
  \/ \E offset \in PointerOffsets, k \in RectRatios :
       /\ props.interactsWithMouse
       /\ handleMouseMove(offset, [width |-> svgDimensions.width * k,
                                   height |-> svgDimensions.height * k])
  \/ handleMouseLeave

\* the pointer moves Next delivers are those the handler heeds: the others
\* change nothing in the component
Spec == Init /\ [][Next]_vars

\* ------------------------------------------------------------------------
\* The component under every pointer event
\* ------------------------------------------------------------------------

\* the renders of the runs that follow the pointer: one text with an
\* outline, jitter of one strength, every setting of the three flags
PointerProps ==
  {p \in PropsSpace : p.text = <<" ", "#">> /\ p.intensity = 20}

InitPointer ==
  /\ Init
  /\ props \in PointerProps

\* mousemove events reach the svg whether interactsWithMouse is on or off
NextPointer ==
  \/ \E ctx \in ContextOutcomes : FlushEffects(ctx[1], ctx[2])
  \/ \E p \in PropChanges(props) \cap PointerProps : SetProps(p)
  \/ \E cb \in pending : \E rnd \in FrameStreams(cb) : animate(cb, rnd)
  \/ \E offset \in PointerOffsets \cup FarOffsets, k \in RectRatios :
       handleMouseMove(offset, [width |-> svgDimensions.width * k,
                                height |-> svgDimensions.height * k])
  \/ handleMouseLeave

SpecPointer == InitPointer /\ [][NextPointer]_vars

\* ------------------------------------------------------------------------
\* The pure functions on their own: the inputs are drawn by the initial
\* state, one step applies the function
\* ------------------------------------------------------------------------

\* the component as constructed, before any effect has run
Unused ==
  /\ props = [text |-> <<>>, fontSize |-> 20, animated |-> TRUE, intensity |-> 20,
              speed |-> 2, interactsWithMouse |-> FALSE, mouseRadius |-> 500,
              mouseStrength |-> 150, waveMode |-> FALSE, waveDelay |-> 1]
  /\ mounted = TRUE
  /\ dirty = {"layout", "animation"}
  /\ hasCleanup = FALSE
  /\ pathData = <<>>
  /\ viewBox = <<0, 0, 100, 100>>
  /\ svgDimensions = [width |-> 100, height |-> 100]
  /\ originalCommandsRef = <<>>
  /\ letterCommandsRef = <<>>
  /\ animationFrameRef = 0
  /\ lastUpdateRef = 0
  /\ mousePositionRef = <<>>
  /\ lastMove = <<>>
  /\ waveStartTimeRef = 0
  /\ pending = {}
  /\ now = 0
  /\ renders = 0
  /\ lastLayout = [done |-> FALSE, text |-> <<>>, fontSize |-> 0, ctx |-> FALSE,
                   time |-> 0]

componentVars ==
  <<props, mounted, dirty, hasCleanup, pathData, viewBox, svgDimensions,
    originalCommandsRef, letterCommandsRef, animationFrameRef, lastUpdateRef,
    mousePositionRef, waveStartTimeRef, pending, now, renders, lastLayout,
    lastMove>>

Command(c, vs, os) == [command |-> c, values |-> vs, originalValues |-> os]

\* well-formed commands: a tag of the emitted set with as many operands
SampleCommands ==
  {Command("Z", <<>>, <<>>),
   Command("M", <<0, -15>>, <<0, -15>>),
   Command("M", <<1205, 7>>, <<1205, 7>>),
   Command("L", <<-1000, 30>>, <<-1000, 30>>),
   Command("L", <<99, 100>>, <<99, 100>>),
   Command("Q", <<-1, 0, 10, 2050>>, <<-1, 0, 10, 2050>>),
   Command("Q", <<144, 185, 156, 230>>, <<144, 185, 156, 230>>)}

RECURSIVE SeqsUpTo(_, _)
SeqsUpTo(S, n) ==
  IF n = 0 THEN {<<>>}
  ELSE LET shorter == SeqsUpTo(S, n - 1)
       IN shorter \cup {Append(q, e) : q \in {t \in shorter : Len(t) = n - 1}, e \in S}

CodecInputs ==
  {[kind |-> "codec", commands |-> cs] : cs \in SeqsUpTo(SampleCommands, MaxCmds)}

\* the characters with an entry in paths
GlyphChars ==
  {"A", "B", "C", "D", "E", "F", "G", "H", "I", "J", "K", "L", "M", "N", "O", "P",
   "Q", "R", "S", "T", "U", "V", "W", "X", "Y", "Z",
   "a", "b", "c", "d", "e", "f", "g", "h", "i", "j", "k", "l", "m", "n", "o", "p",
   "q", "r", "s", "t", "u", "v", "w", "x", "y", "z", " ", ".", ",", "!", "?"}

\* characters without an entry: two that are their own upper-case form and
\* two that are not
OtherChars == {"#", "7", "é", "ß"}

GlyphInputs ==
  {[kind |-> "glyph", char |-> c, x |-> x, y |-> 10 * fs, width |-> w,
    height |-> 10 * fs] :
     c \in GlyphChars \cup OtherChars, x \in {100, 250}, w \in {100, 200},
     fs \in {20, 40}}

\* the props the component function works with: those the caller gave
\* (config.given) and the defaults of the parameter list for the others;
\* lengths in tenths of a pixel, times in units of 100 ms (speed = 50 ms is
\* less than one unit)
JigglyTextDefaults(config) ==
  LET given(name, default) == IF name \in config.given THEN config[name] ELSE default
  IN [text |-> given("text", <<>>), fontSize |-> given("fontSize", 72),
      animated |-> given("animated", TRUE), intensity |-> given("intensity", 15),
      speed |-> given("speed", 0),
      interactsWithMouse |-> given("interactsWithMouse", FALSE),
      mouseRadius |-> given("mouseRadius", 500),
      mouseStrength |-> given("mouseStrength", 150),
      waveMode |-> given("waveMode", FALSE), waveDelay |-> given("waveDelay", 1)]

\* what the caller writes: some props given, the others omitted
ConfigInputs ==
  {[kind |-> "config", given |-> g, text |-> t, fontSize |-> 20, animated |-> a,
    intensity |-> 20, speed |-> 2, interactsWithMouse |-> FALSE, mouseRadius |-> 500,
    mouseStrength |-> 150, waveMode |-> FALSE, waveDelay |-> 1] :
     g \in SUBSET {"text", "fontSize", "animated"},
     t \in {<<>>, <<"H", "e", "l", "l", "o">>, <<" ", "#">>}, a \in BOOLEAN}

\* a letter of a wave frame: time since the layout (a frame's timestamp
\* may precede it), index of the letter, delay per letter, intensity
WaveInputs ==
  {[kind |-> "wave", elapsed |-> e, index |-> i, waveDelay |-> d, intensity |-> a] :
     e \in -2..7, i \in 0..3, d \in {1, 2, 3}, a \in {0, 15, 20}}

\* texts of at most MaxText characters, laid out with or without a context
LayoutInputs ==
  {[kind |-> "layout", text |-> t, fontSize |-> fs, ctx |-> c] :
     t \in SeqsUpTo({"A", " ", "j", "#"}, MaxText), fs \in {20, 40}, c \in BOOLEAN}

\* the characters of the outline descriptions handed to the parser on
\* their own: two command letters, what numerals are made of, the two
\* separators and a character that belongs to no numeral
ParseChars == {"M", "z", "1", "-", ".", ",", " ", "#"}

\* every string over ParseChars, well formed or not
ParseInputs ==
  {[kind |-> "parse", d |-> d] : d \in SeqsUpTo(ParseChars, MaxChars)}

\* font sizes of the layouts whose viewport is looked at: a small one, the
\* default and a large one
ViewportFontSizes == {20, 72, 100}

\* every text of one character of the library, and two longer ones
ViewportInputs ==
  {[kind |-> "viewport", text |-> t, fontSize |-> fs] :
     t \in {<<c>> : c \in GlyphChars} \cup {<<"g", ",">>, <<"W", " ", "y">>},
     fs \in ViewportFontSizes}

\* commands whose current values already differ from the base
JiggleInputs ==
  {[kind |-> "jiggle", intensity |-> i, rnd |-> r,
    commands |-> <<Command("M", <<v + 3, 7>>, <<v, 0 - v>>),
                   Command("Z", <<>>, <<>>),
                   Command("L", <<0, v>>, <<v, 185>>),
                   Command("z", <<>>, <<>>)>>] :
     i \in {0, 4, 15}, v \in {-100, 144},
     r \in [1..4 -> {0, 1, 2, 3}]}

\* offsets of a point from the pointer for which the push is exact
PointOffsets ==
  {<<0, 0>>, <<10, 0>>, <<0, -20>>, <<12, 16>>, <<24, -32>>, <<-40, 0>>,
   <<30, 40>>, <<60, 0>>}

MorphInputs ==
  {[kind |-> "morph", mouse |-> m, radius |-> 50, strength |-> s,
    commands |-> <<Command("Z", <<>>, <<>>),
                   Command("Q", <<m[1] + a[1], m[2] + a[2], m[1] + b[1], m[2] + b[2]>>,
                                <<0, 0, 0, 0>>),
                   Command("z", <<>>, <<>>)>>] :
     m \in {<<100, 100>>, <<0, 35>>}, s \in {100, 150},
     a \in PointOffsets, b \in PointOffsets}

InitPure ==
  /\ Unused
  /\ probe \in CodecInputs \cup GlyphInputs \cup LayoutInputs \cup JiggleInputs
                \cup MorphInputs \cup ConfigInputs \cup WaveInputs
                \cup ParseInputs \cup ViewportInputs

ParseStep ==
  /\ probe.kind = "parse"
  /\ probe' = [kind |-> "parse done", d |-> probe.d,
               parsed |-> parsePathData(probe.d)]
  /\ UNCHANGED componentVars

CodecStep ==
  /\ probe.kind = "codec"
  /\ LET path == commandsToPath(probe.commands)
     IN probe' = [kind |-> "codec done", commands |-> probe.commands, path |-> path,
                  parsed |-> parsePathData(path),
                  again |-> commandsToPath(parsePathData(path))]
  /\ UNCHANGED componentVars

GlyphStep ==
  /\ probe.kind = "glyph"
  /\ LET path   == characterToPath(probe.char, probe.x, probe.y, probe.width,
                                   probe.height)
         parsed == parsePathData(path)
     IN probe' = [kind |-> "glyph done", char |-> probe.char, path |-> path,
                  x |-> probe.x, y |-> probe.y, width |-> probe.width,
                  height |-> probe.height, parsed |-> parsed,
                  again |-> parsePathData(commandsToPath(parsed))]
  /\ UNCHANGED componentVars

\* textToPathWithLetters(text, font, fontSize, 10, fontSize), as the layout
\* effect calls it
LayoutStep ==
  /\ probe.kind = "layout"
  /\ probe' = [kind |-> "layout done", text |-> probe.text,
               fontSize |-> probe.fontSize, ctx |-> probe.ctx,
               out |-> textToPathWithLetters(probe.text, probe.fontSize, 10 * Scale,
                                             probe.fontSize * Scale, probe.ctx)]
  /\ UNCHANGED componentVars

\* the layout effect with a drawing context: the viewport it computes and
\* the commands it caches
ViewportStep ==
  /\ probe.kind = "viewport"
  /\ LET width  == CeilPx(measureString(probe.text, probe.fontSize)) + 20
         height == probe.fontSize + 20
         paths  == textToPathWithLetters(probe.text, probe.fontSize, 10 * Scale,
                                         probe.fontSize * Scale, TRUE)
     IN probe' = [kind |-> "viewport done", text |-> probe.text,
                  fontSize |-> probe.fontSize,
                  originalCommands |-> parsePathData(paths.fullPath),
                  viewBox |-> <<0, 0, width, height>>]
  /\ UNCHANGED componentVars

\* the first render of <JigglyText {...config} /> and its two effects, with
\* a drawing context: the props resolved, the outline laid out and whether
\* the animation effect starts the loop
MountStep ==
  /\ probe.kind = "config"
  /\ LET p     == JigglyTextDefaults(probe)
         paths == textToPathWithLetters(p.text, p.fontSize, 10 * Scale,
                                        p.fontSize * Scale, TRUE)
     IN probe' = [kind |-> "config done", given |-> probe.given, props |-> p,
                  pathData |-> paths.fullPath,
                  started |-> ~animationGuard(p, parsePathData(paths.fullPath))]
  /\ UNCHANGED componentVars

\* the first three lines of the callback of letterCommandsRef.current.map
WaveStep ==
  /\ probe.kind = "wave"
  /\ LET letterPhase == probe.index * probe.waveDelay
         factor      == waveIntensity(probe.elapsed, letterPhase)
     IN probe' = [kind |-> "wave done", elapsed |-> probe.elapsed,
                  letterPhase |-> letterPhase, intensity |-> probe.intensity,
                  waveIntensity |-> factor,
                  currentIntensity |-> Quot(probe.intensity * factor, Scale)]
  /\ UNCHANGED componentVars

\* one frame of the else branch of animate on the cached outline of one
\* character, with animated and interactsWithMouse set, intensity 2, the
\* pointer on the character's origin, mouseRadius 50 and mouseStrength 15
TickStep ==
  /\ probe.kind = "glyph done"
  /\ \E rnd \in RandomStreams(DrawCount(probe.parsed)) :
       \E jiggled \in {jiggleCommands(probe.parsed, 2 * Scale, rnd, 0)} :
         \E morphed \in {morphCommandsWithMouse(jiggled, probe.x, probe.y,
                                                 50 * Scale, 15 * Scale)} :
           probe' = [kind |-> "tick done", char |-> probe.char,
                     base |-> probe.parsed, jiggled |-> jiggled,
                     morphed |-> morphed,
                     shown |-> parsePathData(commandsToPath(morphed))]
  /\ UNCHANGED componentVars

JiggleStep ==
  /\ probe.kind = "jiggle"
  /\ probe' = [kind |-> "jiggle done", commands |-> probe.commands,
               intensity |-> probe.intensity,
               out |-> jiggleCommands(probe.commands, probe.intensity, probe.rnd, 0)]
  /\ UNCHANGED componentVars

MorphStep ==
  /\ probe.kind = "morph"
  /\ probe' = [kind |-> "morph done", commands |-> probe.commands,
               mouse |-> probe.mouse, radius |-> probe.radius,
               strength |-> probe.strength,
               out |-> morphCommandsWithMouse(probe.commands, probe.mouse[1],
                          probe.mouse[2], probe.radius, probe.strength)]
  /\ UNCHANGED componentVars

NextPure ==
  \/ ParseStep \/ CodecStep \/ GlyphStep \/ TickStep \/ LayoutStep \/ ViewportStep
  \/ MountStep
  \/ WaveStep
  \/ JiggleStep \/ MorphStep

SpecPure == InitPure /\ [][NextPure]_vars

\* ------------------------------------------------------------------------
\* Properties of the animation driver (Spec)
\* ------------------------------------------------------------------------

\* the effects of the last render have run
Settled == dirty = {}

Running == pending # {}

Enabled == props.animated \/ props.interactsWithMouse

\* the driver has been told to stop: torn down, or both flags off
Stopped == Settled /\ (~mounted \/ ~Enabled)

AppliedFrame == probe.kind = "frame" /\ probe.applied

\* C1: once the effects of a render have run, the driver is Running whenever
\* animated or interactsWithMouse holds and the cached base outline has at
\* least one command, also when the outline became non-empty by a text change
C1_RunningWheneverEnabled ==
  (mounted /\ Settled /\ Enabled /\ Len(originalCommandsRef) > 0) => Running

\* C2: at most one frame callback is pending in every reachable state
C2_SingleTicker == Cardinality(pending) <= 1

C2_Restarted ==
  /\ probe.kind = "effects"
  /\ probe.cancelled = 1
  /\ probe.started
  /\ Cardinality(pending) = 1

\* C3: after teardown, or once animated and interactsWithMouse are both
\* false, no frame callback is pending, and while none is pending the
\* displayed outline is written by no frame: only a re-layout replaces it
C3_IdleWhenStopped ==
  /\ [](Stopped => ~Running)
  /\ [][~Running => (pathData' = pathData \/ (probe'.kind = "effects" /\ probe'.layout))]_vars

C3_StoppedARunningLoop ==
  /\ Stopped
  /\ mounted
  /\ probe.kind = "effects"
  /\ probe.cancelled = 1
  /\ lastUpdateRef > 0

\* C4: a frame whose timestamp is less than speed after the last applied
\* update changes neither the displayed outline nor the last-update
\* timestamp and reschedules itself; so every applied update is at least
\* speed after the one before it, also when the loop restarted in between
C4_Throttle ==
  /\ [](AppliedFrame => probe.timestamp - probe.lastUpdate >= probe.cfg.speed)
  /\ [][(probe'.kind = "frame" /\ now' - lastUpdateRef < probe'.cfg.speed)
          => /\ pathData' = pathData
             /\ lastUpdateRef' = lastUpdateRef
             /\ Cardinality(pending') = Cardinality(pending)
             /\ animationFrameRef' \in {cb.id : cb \in pending'}]_vars

C4_AppliedAfterRestart ==
  /\ AppliedFrame
  /\ probe.lastUpdate > 0
  /\ probe.since >= probe.lastUpdate
  /\ renders >= 1

\* the outlines the last completed layout computed
LaidOut ==
  textToPathWithLetters(lastLayout.text, lastLayout.fontSize, 10 * Scale,
                        lastLayout.fontSize * Scale, lastLayout.ctx)

\* the parsed outlines of every layout the component can be asked for
LaidOutCommands ==
  [text \in Texts |-> [fontSize \in FontSizes |-> [ctx \in BOOLEAN |->
     LET paths == textToPathWithLetters(text, fontSize, 10 * Scale,
                                        fontSize * Scale, ctx)
     IN [full    |-> parsePathData(paths.fullPath),
         letters |-> [i \in 1..Len(paths.perLetterPaths) |->
                        parsePathData(paths.perLetterPaths[i])]]]]]

\* out is base with other current values: same tags, same base operands
PerturbationOf(out, base) ==
  /\ Len(out) = Len(base)
  /\ \A j \in 1..Len(base) :
       /\ out[j].command = base[j].command
       /\ out[j].originalValues = base[j].originalValues
       /\ Len(out[j].values) = Len(base[j].values)

\* C5: once a layout has run, the cached full outline and the per-letter
\* outlines are those of the text it laid out and the wave clock starts at
\* its time; every applied frame perturbs that geometry and measures its
\* wave elapsed time from that layout
C5_FramesUseLastLayout ==
  lastLayout.done =>
    LET base == LaidOutCommands[lastLayout.text][lastLayout.fontSize][lastLayout.ctx]
    IN /\ originalCommandsRef = base.full
       /\ letterCommandsRef = base.letters
       /\ waveStartTimeRef = lastLayout.time
       /\ AppliedFrame =>
            /\ PerturbationOf(probe.out, base.full)
            /\ probe.elapsed = probe.timestamp - lastLayout.time

C5_FrameAfterRelayout ==
  /\ AppliedFrame
  /\ probe.wave
  /\ probe.out # <<>>
  /\ renders >= 1
  /\ lastLayout.time >= 2
  /\ probe.since < lastLayout.time
  /\ lastLayout.text = props.text

\* C7: with intensity 0 and pointer interaction disabled, the outline an
\* applied frame publishes parses to the tags and operands of the base
\* outline, in normal mode and in wave mode
C7_ZeroIntensityIsBase ==
  (AppliedFrame /\ mounted /\ probe.cfg.intensity = 0 /\ ~probe.cfg.interactsWithMouse)
    => parsePathData(pathData) = originalCommandsRef

C7_ZeroIntensityWaveFrame ==
  /\ AppliedFrame
  /\ mounted
  /\ probe.cfg.intensity = 0
  /\ ~probe.cfg.interactsWithMouse
  /\ probe.wave
  /\ Len(originalCommandsRef) > 0
  /\ pathData # LaidOut.fullPath

\* ------------------------------------------------------------------------
\* Properties of the pure functions (SpecPure)
\* ------------------------------------------------------------------------

\* C6: after one application of jitter every operand of every non-close
\* command is within intensity of its base value
C6_JitterBound ==
  probe.kind = "jiggle done" =>
    \A j \in 1..Len(probe.out) :
      ~IsClose(probe.commands[j]) =>
        \A i \in 1..Len(probe.out[j].values) :
          Abs(probe.out[j].values[i] - probe.commands[j].originalValues[i])
            <= probe.intensity

C6_BoundAttained ==
  /\ probe.kind = "jiggle done"
  /\ probe.intensity = 15
  /\ probe.out[1].values[1] - probe.commands[1].originalValues[1] = 0 - 15
  /\ probe.out[1].values[2] - probe.commands[1].originalValues[2] > 0
  /\ probe.out[2] = probe.commands[2]

\* the two points of the curve command handed to the pointer displacement
PointIn(k) == <<probe.commands[2].values[2 * k - 1], probe.commands[2].values[2 * k]>>

PointOut(k) == <<probe.out[2].values[2 * k - 1], probe.out[2].values[2 * k]>>

SquaredLength(a, b) == (a[1] - b[1]) * (a[1] - b[1]) + (a[2] - b[2]) * (a[2] - b[2])

\* squared distance of point k to the pointer, before the push
Dist2(k) == SquaredLength(PointIn(k), probe.mouse)

\* squared magnitude of the displacement of point k
Push2(k) == SquaredLength(PointOut(k), PointIn(k))

\* C8 as stated: the magnitude of the displacement is non-increasing in the
\* distance over all distances >= 0 and is 0 from the radius on
C8_FalloffFromZero ==
  probe.kind = "morph done" =>
    \A a \in {1, 2}, b \in {1, 2} :
      /\ Dist2(a) <= Dist2(b) => Push2(a) >= Push2(b)
      /\ Dist2(a) >= probe.radius * probe.radius => Push2(a) = 0

\* C8 amended: the magnitude of the displacement is non-increasing in the
\* distance over all distances > 0 and is 0 from the radius on
C8_FalloffBeyondZero ==
  probe.kind = "morph done" =>
    \A a \in {1, 2}, b \in {1, 2} :
      /\ (0 < Dist2(a) /\ Dist2(a) <= Dist2(b)) => Push2(a) >= Push2(b)
      /\ Dist2(a) >= probe.radius * probe.radius => Push2(a) = 0

C8_TwoPointsInReach ==
  /\ probe.kind = "morph done"
  /\ 0 < Dist2(1)
  /\ Dist2(1) < Dist2(2)
  /\ Dist2(2) < probe.radius * probe.radius
  /\ Push2(1) > Push2(2)
  /\ Push2(2) > 0

\* C9: a point that coincides with the pointer keeps both operands, and the
\* displacement produces no NaN
C9_CoincidentPointKept ==
  probe.kind = "morph done" =>
    /\ \A i \in 1..4 : probe.out[2].values[i] # NaN
    /\ \A k \in {1, 2} : Dist2(k) = 0 => PointOut(k) = PointIn(k)

C9_PointOnPointer ==
  /\ probe.kind = "morph done"
  /\ Dist2(1) = 0
  /\ Push2(2) > 0

\* C10: serialising what was parsed from a serialised well-formed command
\* sequence gives the same text, with the tags and operands of the sequence;
\* a glyph outline parsed, serialised and parsed again has the same tags
\* and operand values
C10_RoundTrip ==
  /\ probe.kind = "codec done" =>
       /\ probe.again = probe.path
       /\ Len(probe.parsed) = Len(probe.commands)
       /\ \A j \in 1..Len(probe.commands) :
            /\ probe.parsed[j].command = probe.commands[j].command
            /\ probe.parsed[j].values = probe.commands[j].values
  /\ probe.kind = "glyph done" => probe.again = probe.parsed

C10_CurveThenClose ==
  /\ probe.kind = "codec done"
  /\ Len(probe.commands) = 2
  /\ probe.commands[1].command = "Q"
  /\ probe.commands[1].values[1] < 0
  /\ probe.commands[2].command = "Z"

\* ------------------------------------------------------------------------
\* Properties of the layout and of the glyph outline library (SpecPure)
\* ------------------------------------------------------------------------

LaidOutWithContext == probe.kind = "layout done" /\ probe.ctx

\* the sum of the advance widths of the first n characters of text
RECURSIVE AdvanceBefore(_, _, _)
AdvanceBefore(text, n, fontSize) ==
  IF n = 0 THEN 0
  ELSE AdvanceBefore(text, n - 1, fontSize) + measureText(text[n], fontSize)

\* C11: a layout that gets its drawing context yields one per-letter
\* outline per character, in string order; the outline at index i is the
\* glyph of character i at x = 10 + the advance widths of the characters
\* before it, on the baseline y = fontSize; the full outline is the
\* concatenation of the per-letter outlines in that order
C11_OneOutlinePerCharacter ==
  LaidOutWithContext =>
    /\ Len(probe.out.perLetterPaths) = Len(probe.text)
    /\ \A i \in 1..Len(probe.text) :
         probe.out.perLetterPaths[i] =
           characterToPath(probe.text[i],
                           10 * Scale + AdvanceBefore(probe.text, i - 1, probe.fontSize),
                           probe.fontSize * Scale,
                           measureText(probe.text[i], probe.fontSize),
                           probe.fontSize * Scale)
    /\ probe.out.fullPath = Concat(probe.out.perLetterPaths)

C11_TwoGlyphsLaidOut ==
  /\ LaidOutWithContext
  /\ Len(probe.text) = 2
  /\ probe.text[1] = "A"
  /\ probe.text[2] = "j"
  /\ probe.out.perLetterPaths[1] # <<>>
  /\ probe.out.perLetterPaths[2] # <<>>

\* commands is a non-empty sequence of subpaths, each an M, then L or Q
\* commands, then a Z
ClosedSubpaths(commands) ==
  /\ commands # <<>>
  /\ commands[1].command = "M"
  /\ commands[Len(commands)].command = "Z"
  /\ \A j \in 1..Len(commands) :
       /\ commands[j].command \in {"M", "L", "Q", "Z"}
       /\ (j > 1 /\ commands[j].command = "M") => commands[j - 1].command = "Z"
       /\ (j < Len(commands) /\ commands[j].command = "Z")
            => commands[j + 1].command = "M"

\* the rectangle from (left, top) to (right, bottom), drawn clockwise
Rectangle(left, top, right, bottom) ==
  <<Command("M", <<left, top>>, <<left, top>>),
    Command("L", <<right, top>>, <<right, top>>),
    Command("L", <<right, bottom>>, <<right, bottom>>),
    Command("L", <<left, bottom>>, <<left, bottom>>),
    Command("Z", <<>>, <<>>)>>

\* C12: every character other than the space yields a non-empty outline
\* of closed subpaths; a character without a glyph yields one rectangle
\* over the middle 80% of its advance width, as high as the cap height when
\* the character is its own upper-case form and 70% of it otherwise
C12_ClosedOutlines ==
  probe.kind = "glyph done" =>
    /\ probe.char # " " => (probe.path # <<>> /\ ClosedSubpaths(probe.parsed))
    /\ probe.char \in OtherChars =>
         LET rise == IF probe.char \in {"#", "7"} THEN probe.height
                     ELSE (probe.height * 7) \div 10
         IN /\ probe.parsed =
                 Rectangle(probe.x + probe.width \div 10, probe.y - rise,
                           probe.x + (probe.width * 9) \div 10, probe.y)
            /\ probe.parsed[2].values[1] - probe.parsed[1].values[1]
                 = (probe.width * 8) \div 10

C12_FallbackForLowerCase ==
  /\ probe.kind = "glyph done"
  /\ probe.char = "é"
  /\ Len(probe.parsed) = 5

\* ------------------------------------------------------------------------
\* Properties of the component (Spec), continued
\* ------------------------------------------------------------------------

AllSpaces(text) == \A i \in 1..Len(text) : text[i] = " "

SpacesLaidOut == lastLayout.done /\ AllSpaces(lastLayout.text)

\* C13: once a text of spaces only has been laid out, the cached full
\* outline has no command, every per-letter outline is empty and so is the
\* displayed outline; no step takes the driver from Idle to Running
C13_SpacesStayIdle ==
  /\ [](SpacesLaidOut =>
         /\ originalCommandsRef = <<>>
         /\ \A i \in 1..Len(letterCommandsRef) : letterCommandsRef[i] = <<>>
         /\ pathData = <<>>)
  /\ [][SpacesLaidOut' => ~(pending = {} /\ pending' # {})]_vars

C13_SpacesLaidOutWhenEnabled ==
  /\ SpacesLaidOut
  /\ lastLayout.ctx
  /\ lastLayout.text # <<>>
  /\ Len(letterCommandsRef) = Len(lastLayout.text)
  /\ Settled
  /\ props.animated
  /\ props.waveMode
  /\ probe.kind = "effects"
  /\ renders >= 1
  /\ ~Running

\* ------------------------------------------------------------------------
\* Properties of the first render (SpecPure)
\* ------------------------------------------------------------------------

Hello == <<"H", "e", "l", "l", "o">>

\* C14: a component rendered without a text prop lays out and displays the
\* outline of "Hello", and with animated defaulted too its loop starts
C14_OmittedTextIsHello ==
  (probe.kind = "config done" /\ "text" \notin probe.given) =>
    /\ probe.props.text = Hello
    /\ probe.pathData = textToPathWithLetters(Hello, probe.props.fontSize, 10 * Scale,
                                              probe.props.fontSize * Scale,
                                              TRUE).fullPath
    /\ "animated" \notin probe.given => probe.started

\* ------------------------------------------------------------------------
\* Properties of the component (Spec): layout without a drawing context
\* ------------------------------------------------------------------------

\* C15: after a run of the layout effect in which a getContext('2d') call
\* returned no context, the cached outline and the displayed outline are
\* empty and the viewport is the initial 0 0 100 100
C15_NoContextIsEmpty ==
  (probe.kind = "effects" /\ probe.noContext) =>
    /\ originalCommandsRef = <<>>
    /\ pathData = <<>>
    /\ viewBox = <<0, 0, 100, 100>>

\* ------------------------------------------------------------------------
\* Properties of the wave envelope (SpecPure)
\* ------------------------------------------------------------------------

\* C16: the wave factor lies in [0, 1], is 0.5 when the elapsed time equals
\* the letter's phase, and the intensity a letter is jittered with lies
\* between 0 and the configured intensity
C16_EnvelopeWithinUnit ==
  probe.kind = "wave done" =>
    /\ 0 <= probe.waveIntensity
    /\ probe.waveIntensity <= Scale
    /\ probe.elapsed = probe.letterPhase => 2 * probe.waveIntensity = Scale
    /\ 0 <= probe.currentIntensity
    /\ probe.currentIntensity <= probe.intensity

C16_EnvelopeAtItsPeak ==
  /\ probe.kind = "wave done"
  /\ probe.letterPhase > probe.elapsed
  /\ probe.waveIntensity = Scale
  /\ probe.intensity > 0
  /\ probe.currentIntensity = probe.intensity

\* ------------------------------------------------------------------------
\* Properties of the frames (Spec)
\* ------------------------------------------------------------------------

\* the cached commands the last frame started from, letter after letter
FrameBase == IF probe.wave THEN Concat(letterCommandsRef) ELSE originalCommandsRef

\* C17: only a layout changes the cached full outline and the cached
\* per-letter outlines; the base operands a frame publishes are those of
\* the cache, and without the pointer every operand it publishes is within
\* the configured intensity of its base, however many frames came before
C17_BaseNeverDrifts ==
  /\ [][(probe'.kind = "effects" /\ probe'.layout)
          \/ (originalCommandsRef' = originalCommandsRef
              /\ letterCommandsRef' = letterCommandsRef)]_vars
  /\ [](AppliedFrame =>
         /\ Len(probe.out) = Len(FrameBase)
         /\ \A j \in 1..Len(FrameBase) :
              /\ probe.out[j].originalValues = FrameBase[j].originalValues
              /\ FrameBase[j].values = FrameBase[j].originalValues
              /\ probe.mouse = <<>> =>
                   \A k \in 1..Len(FrameBase[j].originalValues) :
                     Abs(probe.out[j].values[k] - FrameBase[j].originalValues[k])
                       <= (IF probe.cfg.animated THEN probe.cfg.intensity ELSE 0))

C17_SecondJitteredFrame ==
  /\ AppliedFrame
  /\ probe.lastUpdate >= 2
  /\ probe.lastUpdate > lastLayout.time
  /\ probe.since <= lastLayout.time
  /\ probe.cfg.animated
  /\ probe.cfg.intensity > 0
  /\ probe.mouse = <<>>
  /\ \E j \in 1..Len(probe.out) : probe.out[j].values # probe.out[j].originalValues

\* number of cached commands in the first i letters
RECURSIVE CommandsUpTo(_)
CommandsUpTo(i) ==
  IF i = 0 THEN 0 ELSE CommandsUpTo(i - 1) + Len(letterCommandsRef[i])

\* the letter (counted from 1) the j-th command of a wave frame belongs to
LetterOf(j) ==
  CHOOSE i \in 1..Len(letterCommandsRef) : CommandsUpTo(i - 1) < j /\ j <= CommandsUpTo(i)

\* the intensity the j-th command of the last frame is to be jittered with
FrameIntensity(j) ==
  IF probe.wave
  THEN Quot(probe.cfg.intensity
              * waveIntensity(probe.elapsed, (LetterOf(j) - 1) * probe.cfg.waveDelay),
            Scale)
  ELSE probe.cfg.intensity

JitterOffsets(intensity) == {JiggleOffset(r, intensity) : r \in RandomValues}

\* C18: on an applied frame with jitter and pointer interaction and the
\* pointer present, every published point is a jittered base point pushed
\* away from the pointer: the push is computed from the jittered pair and
\* added to it
C18_PushOnTopOfJitter ==
  (AppliedFrame /\ probe.cfg.animated /\ probe.cfg.interactsWithMouse
     /\ probe.mouse # <<>>) =>
    \A j \in 1..Len(FrameBase) :
      \/ IsClose(FrameBase[j]) /\ probe.out[j] = FrameBase[j]
      \/ /\ ~IsClose(FrameBase[j])
         /\ \A k \in {n \in 1..Len(FrameBase[j].originalValues) : n % 2 = 1} :
              \E ox \in JitterOffsets(FrameIntensity(j)),
                 oy \in JitterOffsets(FrameIntensity(j)) :
                LET jittered == <<FrameBase[j].originalValues[k] + ox,
                                  FrameBase[j].originalValues[k + 1] + oy>>
                IN /\ probe.out[j].values[k] =
                        morphValue(jittered, 1, probe.mouse[1], probe.mouse[2],
                                   probe.cfg.mouseRadius, probe.cfg.mouseStrength)
                   /\ probe.out[j].values[k + 1] =
                        morphValue(jittered, 2, probe.mouse[1], probe.mouse[2],
                                   probe.cfg.mouseRadius, probe.cfg.mouseStrength)

\* a frame whose points are both jittered and pushed
C18_JitteredAndPushed ==
  /\ AppliedFrame
  /\ probe.cfg.animated
  /\ probe.cfg.interactsWithMouse
  /\ probe.mouse # <<>>
  /\ probe.cfg.intensity > 0
  /\ \E j \in 1..Len(FrameBase) :
       /\ ~IsClose(FrameBase[j])
       /\ FrameIntensity(j) > 0
       /\ probe.out[j].values[1] - FrameBase[j].originalValues[1]
            \notin JitterOffsets(FrameIntensity(j))
       /\ probe.out[j].values #
            morphCommandsWithMouse(FrameBase, probe.mouse[1], probe.mouse[2],
                                   probe.cfg.mouseRadius,
                                   probe.cfg.mouseStrength)[j].values

\* 0.5 + 0.5 * sin(pi * t / 200), t in units of 100 ms
intensityFactor(t) == (Scale + SinQuarter(t) * Scale) \div 2

\* C19: on an applied wave frame the letter at index i, spaces counted, is
\* jittered with intensity * intensityFactor(elapsed - i * waveDelay), the
\* elapsed time running from the last layout; the letters are serialized
\* one after the other in index order
C19_LetterPhases ==
  (AppliedFrame /\ probe.wave /\ probe.cfg.animated /\ probe.mouse = <<>>) =>
    /\ probe.elapsed = probe.timestamp - lastLayout.time
    /\ Len(probe.out) = CommandsUpTo(Len(letterCommandsRef))
    /\ \A i \in 1..Len(letterCommandsRef) : \A c \in 1..Len(letterCommandsRef[i]) :
         LET base      == letterCommandsRef[i][c]
             published == probe.out[CommandsUpTo(i - 1) + c]
             intensity == Quot(probe.cfg.intensity
                                 * intensityFactor(probe.elapsed
                                                   - (i - 1) * probe.cfg.waveDelay),
                               Scale)
         IN /\ published.command = base.command
            /\ Len(published.values) = Len(base.originalValues)
            /\ \A k \in 1..Len(base.originalValues) :
                 published.values[k] - base.originalValues[k]
                   \in (IF IsClose(base) THEN {0} ELSE JitterOffsets(intensity))
    /\ pathData =
         Concat([i \in 1..Len(letterCommandsRef) |->
                   commandsToPath(SubSeq(probe.out, CommandsUpTo(i - 1) + 1,
                                         CommandsUpTo(i)))])

\* a wave frame in which a letter after a space is at the peak of its wave
\* while the first letter is not
C19_SecondLetterAtPeak ==
  /\ AppliedFrame
  /\ probe.wave
  /\ probe.cfg.animated
  /\ probe.mouse = <<>>
  /\ probe.cfg.intensity > 0
  /\ Len(letterCommandsRef) = 2
  /\ letterCommandsRef[1] = <<>>
  /\ letterCommandsRef[2] # <<>>
  /\ intensityFactor(probe.elapsed - probe.cfg.waveDelay) = Scale
  /\ intensityFactor(probe.elapsed) # Scale
  /\ probe.out[1].values # probe.out[1].originalValues

\* ------------------------------------------------------------------------
\* Properties of the parser on arbitrary strings (SpecPure)
\* ------------------------------------------------------------------------

\* the places of the command letters of d
LetterPositions(d) == {i \in 1..Len(d) : d[i] \in CommandLetters}

\* the place of the j-th command letter of d
NthLetter(d, j) ==
  CHOOSE i \in LetterPositions(d) :
    Cardinality({k \in LetterPositions(d) : k < i}) = j - 1

\* what stands between the j-th command letter and the next one
OperandText(d, j) ==
  LET next == IF j < Cardinality(LetterPositions(d)) THEN NthLetter(d, j + 1)
              ELSE Len(d) + 1
  IN SubSeq(d, NthLetter(d, j) + 1, next - 1)

\* the places where an operand token of s starts
TokenStarts(s) ==
  {i \in 1..Len(s) :
     s[i] \notin {" ", ","} /\ (i = 1 \/ s[i - 1] \in {" ", ","})}

\* the operand token of s that starts at i
TokenAt(s, i) ==
  SubSeq(s, i, CHOOSE e \in i..Len(s) :
                 /\ \A k \in i..e : s[k] \notin {" ", ","}
                 /\ (e = Len(s) \/ s[e + 1] \in {" ", ","}))

\* the starts of the tokens of s that convert to a number
NumericStarts(s) ==
  {i \in TokenStarts(s) : StringToNumber(TokenAt(s, i)) # NaN}

\* the numbers of the convertible tokens of s, in their order
ConvertibleOperands(s) ==
  [k \in 1..Cardinality(NumericStarts(s)) |->
     StringToNumber(TokenAt(s,
       CHOOSE i \in NumericStarts(s) :
         Cardinality({m \in NumericStarts(s) : m < i}) = k - 1))]

\* C20: parsing any string gives one command per command letter, in the
\* order of the letters; the operands of a command are the numbers of
\* the tokens after its letter that convert to a number, in their order,
\* the other tokens being left out; current and base operands are equal
C20_ParseDropsBadTokens ==
  probe.kind = "parse done" =>
    /\ Len(probe.parsed) = Cardinality(LetterPositions(probe.d))
    /\ \A j \in 1..Len(probe.parsed) :
         /\ probe.parsed[j].command = probe.d[NthLetter(probe.d, j)]
         /\ probe.parsed[j].values = ConvertibleOperands(OperandText(probe.d, j))
         /\ probe.parsed[j].originalValues = probe.parsed[j].values

\* a token that is no number, followed by a numeral in the same command
C20_BadTokenThenNumeral ==
  /\ probe.kind = "parse done"
  /\ probe.d = <<"M", "#", ",", "1">>
  /\ Len(probe.parsed) = 1
  /\ probe.parsed[1].values = <<Scale>>

\* ------------------------------------------------------------------------
\* Properties of the commands of glyph outlines and of frames (SpecPure)
\* ------------------------------------------------------------------------

\* the number of operands of a tag: close, move and line, quadratic curve
Arity(tag) ==
  CASE tag \in {"Z", "z"} -> 0
    [] tag \in {"M", "m", "L", "l"} -> 2
    [] tag \in {"Q", "q"} -> 4
    [] OTHER -> 0 - 1

HasArity(cmd) ==
  /\ Len(cmd.values) = Len(cmd.originalValues)
  /\ Len(cmd.originalValues) = Arity(cmd.command)

AllHaveArity(commands) == \A j \in 1..Len(commands) : HasArity(commands[j])

\* C21: every command of the parsed outline of a glyph of the library, of
\* the outline a frame makes of it by jitter and by the pointer push, and
\* of the outline on display after that frame, has as many current
\* operands as base operands, and as many as its tag takes
C21_OperandCounts ==
  /\ (probe.kind = "glyph done" /\ probe.char \in GlyphChars)
       => AllHaveArity(probe.parsed)
  /\ (probe.kind = "tick done" /\ probe.char \in GlyphChars)
       => /\ AllHaveArity(probe.base)
          /\ AllHaveArity(probe.jiggled)
          /\ AllHaveArity(probe.morphed)
          /\ AllHaveArity(probe.shown)

\* a frame on a glyph with a curve: operands jittered and pushed
C21_CurveGlyphTicked ==
  /\ probe.kind = "tick done"
  /\ probe.char = "g"
  /\ \E j \in 1..Len(probe.morphed) :
       /\ probe.morphed[j].command = "Q"
       /\ probe.jiggled[j].values # probe.base[j].values
       /\ probe.morphed[j].values # probe.jiggled[j].values

\* out has the commands of in: as many, with the same tags in the same
\* order, and the close commands as they were
SameCommands(in, out) ==
  /\ Len(out) = Len(in)
  /\ \A j \in 1..Len(in) :
       /\ out[j].command = in[j].command
       /\ in[j].command \in {"Z", "z"} => out[j] = in[j]

\* C22: jiggleCommands and morphCommandsWithMouse each return as many
\* commands as they were given, with the same tags in the same order, and
\* return the close commands Z and z as they were given
C22_TagsAndClosesKept ==
  /\ probe.kind = "jiggle done" => SameCommands(probe.commands, probe.out)
  /\ probe.kind = "morph done" => SameCommands(probe.commands, probe.out)
  /\ probe.kind = "tick done" =>
       /\ SameCommands(probe.base, probe.jiggled)
       /\ SameCommands(probe.jiggled, probe.morphed)

\* a glyph of two closed subpaths, every open command of which was
\* jittered and then pushed
C22_TwoSubpathsPerturbed ==
  /\ probe.kind = "tick done"
  /\ Cardinality({j \in 1..Len(probe.base) : probe.base[j].command = "Z"}) = 2
  /\ \A j \in 1..Len(probe.base) :
       probe.base[j].command # "Z" =>
         /\ probe.jiggled[j].values # probe.base[j].values
         /\ probe.morphed[j].values # probe.jiggled[j].values

\* ------------------------------------------------------------------------
\* Properties of the component (Spec): the outline on display when idle
\* ------------------------------------------------------------------------

\* the last layout was made for the text and size of the last render, with
\* a drawing context
LayoutIsCurrent ==
  /\ lastLayout.done
  /\ lastLayout.ctx
  /\ lastLayout.text = props.text
  /\ lastLayout.fontSize = props.fontSize

\* C23: once the effects of a render with animated and interactsWithMouse
\* both off have run and no frame is pending, the outline on display has
\* the tags and operands of the base outline of the text, also when
\* animated was on before and frames were applied
C23_IdleShowsBase ==
  (mounted /\ Settled /\ ~Running /\ ~props.animated /\ ~props.interactsWithMouse
     /\ LayoutIsCurrent)
    => parsePathData(pathData) = LaidOutCommands[props.text][props.fontSize][TRUE].full

\* ------------------------------------------------------------------------
\* Properties of the component (Spec): the pointer position frames use
\* ------------------------------------------------------------------------

\* C24: a frame that applies the pointer push uses the position of the
\* last mousemove event on the svg, and no mouseleave event came after
\* that event, whatever renders changed interactsWithMouse in between
C24_FramesUseLastMove ==
  (AppliedFrame /\ probe.mouse # <<>>) => probe.mouse = probe.pointer

\* ------------------------------------------------------------------------
\* Properties of the layout's viewport (SpecPure)
\* ------------------------------------------------------------------------

\* the coordinate pairs of a command: its operands taken two by two
PointsOf(cmd) ==
  {<<cmd.values[2 * k - 1], cmd.values[2 * k]>> : k \in 1..(Len(cmd.values) \div 2)}

\* C25: every coordinate pair of the base outline of a text of library
\* glyphs lies in the viewport the layout computes for it:
\* 0 <= x <= ceil(text width) + 20 and 0 <= y <= fontSize + 20
C25_OutlineInsideViewport ==
  probe.kind = "viewport done" =>
    \A j \in 1..Len(probe.originalCommands) :
      \A pt \in PointsOf(probe.originalCommands[j]) :
        /\ 0 <= pt[1]
        /\ pt[1] <= probe.viewBox[3] * Scale
        /\ 0 <= pt[2]
        /\ pt[2] <= probe.viewBox[4] * Scale

====
